---- MODULE Spec2Model ----
(***************************************************************************)
(* Rootly API gateway: route matcher, JWT middleware, in-pipeline          *)
(* authentication gate and mode dispatch.                                  *)
(*                                                                         *)
(* Strings are sequences of atoms.  The characters the code inspects       *)
(* ("/", "{", "}", "*", " ") are atoms of their own; every other atom is   *)
(* an opaque run of ordinary characters.                                   *)
(***************************************************************************)
EXTENDS Integers, Sequences, FiniteSets, TLC

VARIABLES
    pc,        \* position of the request task in the handler chain
    req,       \* the inbound HTTP request (method, path, headers)
    gin,       \* gin.Context: keys set by the middleware, aborted flag
    reqCtx,    \* domain.RequestContext built by HandleRequest
    response,  \* the response written to the client
    authResp,  \* what the auth service answered to the middleware's call
    trace,     \* what has been done on behalf of the request
    mTable,    \* route matcher harness: route table
    mPath,     \* route matcher harness: inbound path
    mMethod,   \* route matcher harness: inbound method
    mResult,   \* route matcher harness: results of the calls made
    config,    \* ConfigProvider.config: which loaded Config cp points to
    sIn,       \* strategy harness: the parameters of one execution
    sOut,      \* strategy harness: what the execution produced
    allowlist  \* AuthService.apiKeys and the goroutines inside the map

vars == <<pc, req, gin, reqCtx, response, authResp, trace,
          mTable, mPath, mMethod, mResult, config, sIn, sOut, allowlist>>
pipeVars == <<pc, req, gin, reqCtx, response, authResp, trace>>
matchVars == <<mTable, mPath, mMethod, mResult>>
stratVars == <<sIn, sOut>>

(***************************************************************************)
(* strings.Trim(s, "/") and strings.Split(s, "/")                          *)
(***************************************************************************)
RECURSIVE TrimLeft(_)
TrimLeft(s) ==
    IF s # <<>> /\ Head(s) = "/" THEN TrimLeft(Tail(s)) ELSE s

RECURSIVE TrimRight(_)
TrimRight(s) ==
    IF s # <<>> /\ s[Len(s)] = "/"
    THEN TrimRight(SubSeq(s, 1, Len(s) - 1))
    ELSE s

Trim(s) == TrimRight(TrimLeft(s))

\* strings.Split never returns an empty slice: Split("") is [""].
RECURSIVE Split(_)
Split(s) ==
    IF \A i \in 1..Len(s) : s[i] # "/"
    THEN <<s>>
    ELSE LET k == CHOOSE i \in 1..Len(s) :
                     s[i] = "/" /\ \A j \in 1..(i - 1) : s[j] # "/"
         IN  <<SubSeq(s, 1, k - 1)>> \o Split(SubSeq(s, k + 1, Len(s)))

\* strings.HasPrefix(routePart, "{") && strings.HasSuffix(routePart, "}")
IsParam(part) ==
    /\ Len(part) > 0
    /\ part[1] = "{"
    /\ part[Len(part)] = "}"

(***************************************************************************)
(* ConfigProvider.matchRoute                                               *)
(***************************************************************************)
PrefixMatches(routePrefix, pathParts) ==
    IF Len(pathParts) < Len(routePrefix)
    THEN FALSE
    ELSE \A i \in 1..Len(routePrefix) :
            IsParam(routePrefix[i]) \/ routePrefix[i] = pathParts[i]

matchRoute(route, path, method) ==
    IF route.Method # method /\ route.Method # "*"
    THEN FALSE
    ELSE LET routeParts == Split(Trim(route.Path))
             pathParts == Split(Trim(path))
         IN  IF Len(routeParts) > 0 /\ routeParts[Len(routeParts)] = <<"*">>
             THEN PrefixMatches(SubSeq(routeParts, 1, Len(routeParts) - 1),
                                pathParts)
             ELSE IF Len(routeParts) # Len(pathParts)
                  THEN FALSE
                  ELSE \A i \in 1..Len(routeParts) :
                          IsParam(routeParts[i]) \/ routeParts[i] = pathParts[i]

(***************************************************************************)
(* ConfigProvider.GetRouteConfig: index of the route returned, 0 when the  *)
(* scan ends without a match.                                              *)
(***************************************************************************)
RECURSIVE ScanLast(_, _, _, _)
ScanLast(routes, path, method, i) ==
    IF i = 0 THEN 0
    ELSE IF matchRoute(routes[i], path, method) THEN i
    ELSE ScanLast(routes, path, method, i - 1)

RECURSIVE ScanFrom(_, _, _, _)
ScanFrom(routes, path, method, i) ==
    IF i > Len(routes) THEN 0
    ELSE IF matchRoute(routes[i], path, method) THEN i
    ELSE ScanFrom(routes, path, method, i + 1)

GetRouteConfigLastWins(routes, path, method) ==
    ScanLast(routes, path, method, Len(routes))

GetRouteConfig(routes, path, method) ==
    ScanFrom(routes, path, method, 1)

(***************************************************************************)
(* Configuration snapshot (config.Config): the ordered route table and the *)
(* services map.  populateDefaults guarantees the four service entries.    *)
(***************************************************************************)
Services == {"analytics", "auth", "data_management", "plant_management"}

Route(path, method, mode, strategy, upstream, upstreams, auth) ==
    [Path |-> path, Method |-> method, Mode |-> mode, Strategy |-> strategy,
     Upstream |-> upstream, TargetPath |-> path, Upstreams |-> upstreams,
     AuthRequired |-> auth]

Routes ==
    << Route(<<"/", "pub", "/", "*">>, "GET", "proxy", "", "analytics",
             <<>>, FALSE),
       Route(<<"/", "users", "/", "{", "id", "}">>, "*", "proxy", "proxy",
             "auth", <<>>, TRUE),
       Route(<<"/", "users", "/", "*">>, "GET", "proxy", "", "auth",
             <<>>, FALSE),
       Route(<<"/", "dash">>, "GET", "logic", "dashboard_orchestrator", "",
             <<"analytics", "plant_management">>, TRUE),
       Route(<<"/", "graphql">>, "POST", "graphql", "graphql_proxy",
             "analytics", <<>>, TRUE),
       Route(<<"/", "legacy">>, "GET", "grpc", "", "analytics", <<>>, FALSE),
       Route(<<"/", "ghost">>, "GET", "proxy", "", "ghost", <<>>, TRUE),
       Route(<<"/", "gql">>, "POST", "graphql", "local_schema",
             "plant_management", <<>>, TRUE),
       Route(<<"/", "profile", "/", "{", "id", "}">>, "GET", "logic",
             "user_profile_orchestrator", "",
             <<"auth", "plant_management">>, TRUE),
       Route(<<"/", "bare">>, "GET", "logic", "dashboard_orchestrator", "",
             <<>>, FALSE) >>

\* What config.LoadConfig returns once the YAML file has been edited: the
\* placeholder route is gone, /dash no longer requires authentication and
\* a service named ghost is declared.
ReloadedServices == Services \cup {"ghost"}

ReloadedRoutes ==
    << Routes[1], Routes[3], [Routes[4] EXCEPT !.AuthRequired = FALSE],
       Routes[5], Routes[6], Routes[7], Routes[8], Routes[9], Routes[10] >>

\* The Config values cp.config can point to: 1 is the one loaded at
\* startup, 2 the one a reload finds.
Configs == {1, 2}
RoutesOf(c) == IF c = 1 THEN Routes ELSE ReloadedRoutes
ServicesOf(c) == IF c = 1 THEN Services ELSE ReloadedServices

\* cp.config.Routes and cp.config.Services as read now
cpRoutes == RoutesOf(config)
cpServices == ServicesOf(config)

\* ConfigProvider.GetServiceConfig
GetServiceConfig(serviceName) == serviceName \in cpServices

\* StrategyManager registry after registerStrategies
Registered ==
    {"proxy", "dashboard_orchestrator", "plant_full_report", "local_schema",
     "graphql_proxy"}

(***************************************************************************)
(* Optional values (nil pointers, absent headers): <<>> or <<v>>.          *)
(***************************************************************************)
Nil == <<>>
Some(v) == <<v>>

(***************************************************************************)
(* Inbound requests                                                        *)
(***************************************************************************)
Methods == {"GET", "POST", "OPTIONS"}

Paths ==
    { <<"/", "pub", "/", "a">>, <<"/", "users", "/", "7">>,
      <<"/", "users", "/", "7", "/", "x">>, <<"/", "dash">>,
      <<"/", "graphql">>, <<"/", "legacy">>, <<"/", "ghost">>,
      <<"/", "gql">>, <<"/", "profile", "/", "7">>, <<"/", "bare">>,
      <<"/", "nope">> }

\* jwtHS verifies under the gateway's jwt_secret; jwtRS was issued by the
\* auth service under a key the gateway does not hold.
Tokens == {"jwtHS", "jwtRS"}

Schemes == {"Bearer", "bearer", "BEARER"}

AuthorizationValues ==
    { <<s, " ", t>> : s \in Schemes, t \in Tokens }
        \cup { <<"Basic", " ", "cred">>, <<"Bearer">>, <<"Bearer", " ">>,
               <<"jwtHS">> }

APIKeyValues == {"", "test-api-key", "bogus"}

Requests ==
    [ Method : Methods,
      Path : Paths,
      Authorization : {Nil} \cup { Some(v) : v \in AuthorizationValues },
      XAPIKey : {Nil} \cup { Some(k) : k \in APIKeyValues } ]

\* http.Header.Get / gin.Context.GetHeader: "" when the header is absent
GetHeader(h) == IF h = Nil THEN <<>> ELSE h[1]

(***************************************************************************)
(* Answers of the auth service to POST <validation_endpoint>               *)
(***************************************************************************)
AuthReply(err, status, parses, valid, uid) ==
    [err |-> err, StatusCode |-> status, parses |-> parses, Valid |-> valid,
     UserID |-> uid, Email |-> "a@x", Roles |-> <<"user">>]

AuthResponses ==
    { AuthReply("none", 200, TRUE, TRUE, "u1"),
      AuthReply("none", 200, TRUE, FALSE, ""),
      AuthReply("none", 200, FALSE, FALSE, ""),
      AuthReply("none", 401, TRUE, FALSE, ""),
      AuthReply("none", 500, TRUE, TRUE, "u1"),
      AuthReply("network", 0, FALSE, FALSE, ""),
      AuthReply("timeout", 0, FALSE, FALSE, ""),
      AuthReply("canceled", 0, FALSE, FALSE, "") }

(***************************************************************************)
(* JWTMiddleware                                                           *)
(***************************************************************************)
\* strings.SplitN(s, " ", 2)
SplitN2(s) ==
    IF \A i \in 1..Len(s) : s[i] # " "
    THEN <<s>>
    ELSE LET k == CHOOSE i \in 1..Len(s) :
                     s[i] = " " /\ \A j \in 1..(i - 1) : s[j] # " "
         IN  <<SubSeq(s, 1, k - 1), SubSeq(s, k + 1, Len(s))>>

\* strings.ToLower
LowerAtom(a) ==
    CASE a = "Bearer" -> "bearer"
      [] a = "BEARER" -> "bearer"
      [] a = "Basic" -> "basic"
      [] a \in {"Connection", "CONNECTION"} -> "connection"
      [] a \in {"Keep-Alive", "KEEP-ALIVE"} -> "keep-alive"
      [] a = "Proxy-Authenticate" -> "proxy-authenticate"
      [] a = "Proxy-Authorization" -> "proxy-authorization"
      [] a \in {"Te", "TE"} -> "te"
      [] a = "Trailers" -> "trailers"
      [] a = "Transfer-Encoding" -> "transfer-encoding"
      [] a \in {"Upgrade", "UPGRADE"} -> "upgrade"
      [] a = "Accept" -> "accept"
      [] a = "X-Trace" -> "x-trace"
      [] OTHER -> a

ToLower(s) == [i \in 1..Len(s) |-> LowerAtom(s[i])]

User(id, username, email, roles) ==
    [ID |-> id, Username |-> username, Email |-> email, Roles |-> roles]

\* JWTMiddleware.validateToken, given the auth service's answer
validateTokenTrustsBody(r) ==
    IF r.err # "none" THEN Nil
    ELSE IF ~r.parses THEN Nil
    ELSE IF ~r.Valid THEN Nil
    ELSE Some(User(r.UserID, "", r.Email, r.Roles))

validateToken(r) ==
    IF r.err # "none" THEN Nil
    ELSE IF r.StatusCode # 200 THEN Nil
    ELSE IF ~r.parses THEN Nil
    ELSE IF ~r.Valid THEN Nil
    ELSE Some(User(r.UserID, "", r.Email, r.Roles))

\* The decision ValidateRequest takes before any network call
MwDecisionChecksUnmatched(r) ==
    IF r.Method = "OPTIONS" THEN "next"
    ELSE LET i == GetRouteConfig(cpRoutes, r.Path, r.Method)
             authHeader == GetHeader(r.Authorization)
             parts == SplitN2(authHeader)
         IN  IF i # 0 /\ ~cpRoutes[i].AuthRequired THEN "next"
             ELSE IF authHeader = <<>> THEN "missing"
             ELSE IF Len(parts) # 2 \/ ToLower(parts[1]) # <<"bearer">>
                  THEN "format"
                  ELSE "validate"

MwDecision(r) ==
    IF r.Method = "OPTIONS" THEN "next"
    ELSE LET i == GetRouteConfig(cpRoutes, r.Path, r.Method)
             authHeader == GetHeader(r.Authorization)
             parts == SplitN2(authHeader)
         IN  IF i = 0 \/ ~cpRoutes[i].AuthRequired THEN "next"
             ELSE IF authHeader = <<>> THEN "missing"
             ELSE IF Len(parts) # 2 \/ ToLower(parts[1]) # <<"bearer">>
                  THEN "format"
                  ELSE "validate"

(***************************************************************************)
(* AuthService (in-process): API-key allowlist and local JWT verification  *)
(***************************************************************************)
apiKeys ==
    {"rootly-api-key-123", "test-api-key", "dashboard-api-key",
     "analytics-service-key"}

\* AuthService.ValidateAPIKey: (valid, err)
ValidateAPIKey(apiKey) ==
    IF apiKey = "" THEN [valid |-> FALSE, err |-> TRUE]
    ELSE IF apiKey \notin apiKeys THEN [valid |-> FALSE, err |-> FALSE]
    ELSE [valid |-> TRUE, err |-> FALSE]

\* AuthService.ValidateJWT: jwt.Parse under jwt_secret accepts jwtHS only;
\* the user is built from the token's own claims.
ValidateJWT(tokenString) ==
    IF tokenString = <<"jwtHS">>
    THEN [user |-> Some(User("u1", "alice", "a@x", <<"user">>)), err |-> ""]
    ELSE [user |-> Nil, err |-> "invalid JWT token"]

APIKeyUser == User("api-key-user", "api-key", "", <<"api-user">>)

\* len(authHeader) > 7 && authHeader[:7] == "Bearer "
HasBearerPrefix(authHeader) ==
    /\ Len(authHeader) > 2
    /\ authHeader[1] = "Bearer"
    /\ authHeader[2] = " "

(***************************************************************************)
(* GatewayService.authenticateRequest: (user, err) and the credential      *)
(* validators it calls.                                                    *)
(***************************************************************************)
authenticateRequestLenient(headers) ==
    [user |-> Nil, err |-> "", checks |-> {"gate"}]

authenticateRequest(headers) ==
    LET hasKey == headers.xapikey # Nil
        keyRes == ValidateAPIKey(headers.xapikey[1])
        hasAuth == headers.authorization # Nil
        authHeader == headers.authorization[1]
        jwtRes == ValidateJWT(SubSeq(authHeader, 3, Len(authHeader)))
        keyChecks == IF hasKey THEN {"gate", "apikey"} ELSE {"gate"}
    IN  IF hasKey /\ keyRes.err
        THEN [user |-> Nil, err |-> "API key is empty", checks |-> keyChecks]
        ELSE IF hasKey /\ keyRes.valid
        THEN [user |-> Some(APIKeyUser), err |-> "", checks |-> keyChecks]
        ELSE IF hasAuth /\ HasBearerPrefix(authHeader)
        THEN [user |-> jwtRes.user, err |-> jwtRes.err,
              checks |-> keyChecks \cup {"jwt"}]
        ELSE [user |-> Nil, err |-> "no valid authentication provided",
              checks |-> keyChecks]

(***************************************************************************)
(* Per-request state                                                       *)
(***************************************************************************)
NoRequest ==
    [Method |-> "", Path |-> <<>>, Authorization |-> Nil, XAPIKey |-> Nil]

NoContext ==
    [Headers |-> [authorization |-> Nil, xapikey |-> Nil],
     Route |-> 0, User |-> Nil]

NoResponse == [StatusCode |-> 0, error |-> ""]

NoTrace ==
    [mwDecision |-> "", credChecks |-> {}, gateErr |-> "", calls |-> {},
     executed |-> <<>>, emitted |-> 0,
     seen |-> {}, routeCfg |-> 1, stages |-> <<>>, goneAt |-> ""]

ErrorResponse(status, msg) == [StatusCode |-> status, error |-> msg]

\* the request went through these steps: "match" is a GetRouteConfig call,
\* "authenticate" an examination of the credentials, "dispatch" the mode
\* switch
Stage(t, steps) == [t EXCEPT !.stages = @ \o steps]

\* c.Request.Context(), which the middleware hands to validateToken, is
\* cancelled when the client's connection goes away
RequestCtxDone == trace.goneAt # ""

\* ctx := context.WithValue(context.Background(), "request_id", requestID):
\* the context ProcessRequest and the strategies work under has no parent
\* that is ever cancelled
ProcessCtxDone == FALSE

\* a lookup through the ConfigProvider reads the Config cp points to now
Saw(t, looked) == IF looked THEN [t EXCEPT !.seen = @ \cup {config}] ELSE t

\* NewAuthService: the map holds the default keys, nobody is reading or
\* writing it, the process runs
KeysAtStartup == [keys |-> apiKeys, inMap |-> {}, fatal |-> FALSE]

PipeIdle ==
    /\ config = 1
    /\ allowlist = KeysAtStartup
    /\ pc = "idle"
    /\ req = NoRequest
    /\ gin = [user |-> Nil, aborted |-> FALSE]
    /\ reqCtx = NoContext
    /\ response = NoResponse
    /\ authResp = Nil
    /\ trace = NoTrace

MatchIdle ==
    /\ mTable = <<>>
    /\ mPath = <<>>
    /\ mMethod = ""
    /\ mResult = <<>>

StratIdle ==
    /\ sIn = <<>>
    /\ sOut = <<>>

Init == PipeIdle /\ MatchIdle /\ StratIdle

(***************************************************************************)
(* The router accepts a request and starts the handler chain.              *)
(***************************************************************************)
Receive(r) ==
    /\ pc = "idle"
    /\ req' = r
    /\ pc' = "middleware"
    /\ gin' = [user |-> Nil, aborted |-> FALSE]
    /\ reqCtx' = NoContext
    /\ response' = NoResponse
    /\ authResp' = Nil
    /\ trace' = NoTrace
    /\ UNCHANGED <<matchVars, allowlist, stratVars, config>>

(***************************************************************************)
(* JWTMiddleware.ValidateRequest up to the call to the auth service        *)
(***************************************************************************)
\* a middleware that writes the error but lets the chain go on
AbortWithoutReturn(status, msg) ==
    /\ response' = ErrorResponse(status, msg)
    /\ gin' = gin
    /\ pc' = "handler"

Abort(status, msg) ==
    /\ response' = ErrorResponse(status, msg)
    /\ gin' = [gin EXCEPT !.aborted = TRUE]
    /\ pc' = "done"

ValidateRequest ==
    /\ pc = "middleware"
    /\ LET d == MwDecision(req)
           t == Stage(Saw(trace, req.Method # "OPTIONS"),
                      (IF req.Method # "OPTIONS" THEN <<"match">> ELSE <<>>)
                      \o (IF d # "next" THEN <<"authenticate">> ELSE <<>>))
       IN  /\ CASE d = "next" ->
                     /\ pc' = "handler"
                     /\ UNCHANGED <<gin, response>>
                     /\ trace' = [t EXCEPT !.mwDecision = d]
                [] d = "missing" ->
                     /\ Abort(401, "Missing authorization header")
                     /\ trace' = [t EXCEPT !.mwDecision = d,
                                     !.credChecks = {"header"},
                                     !.emitted = @ + 1]
                [] d = "format" ->
                     /\ Abort(401, "Invalid authorization header format")
                     /\ trace' = [t EXCEPT !.mwDecision = d,
                                     !.credChecks = {"header"},
                                     !.emitted = @ + 1]
                [] OTHER ->
                     /\ pc' = "validating"
                     /\ UNCHANGED <<gin, response>>
                     /\ trace' = [t EXCEPT !.mwDecision = d,
                                     !.credChecks = {"header", "remote"},
                                     !.calls = {"auth:validate"}]
    /\ UNCHANGED <<req, reqCtx, authResp, matchVars, allowlist, stratVars, config>>

\* JWTMiddleware.validateToken returns: the auth service has answered (or
\* the 5 s client timeout has fired).
ValidateTokenReturns(r) ==
    /\ pc = "validating"
    /\ r.err = "canceled" <=> RequestCtxDone
    /\ authResp' = Some(r)
    /\ LET user == validateToken(r)
       IN  IF user = Nil
           THEN /\ Abort(401, "Invalid or expired token")
                /\ trace' = [trace EXCEPT !.emitted = @ + 1]
           ELSE /\ gin' = [gin EXCEPT !.user = user]
                /\ pc' = "handler"
                /\ UNCHANGED <<response, trace>>
    /\ UNCHANGED <<req, reqCtx, matchVars, allowlist, stratVars, config>>

(***************************************************************************)
(* GatewayHandler.HandleRequest calling GatewayService.ProcessRequest:     *)
(* build the request context, match the route, run the authentication      *)
(* gate.  Nothing in this stretch blocks.                                  *)
(***************************************************************************)
Respond(status, msg) ==
    /\ response' = ErrorResponse(status, msg)
    /\ pc' = "done"

ProcessRequest ==
    /\ pc = "handler"
    /\ LET headers == [authorization |-> req.Authorization,
                       xapikey |-> req.XAPIKey]
           i == GetRouteConfig(cpRoutes, req.Path, req.Method)
           a == authenticateRequest(headers)
           t == Stage([Saw(trace, TRUE) EXCEPT !.routeCfg = config],
                      <<"match">>
                      \o (IF i # 0 /\ cpRoutes[i].AuthRequired
                          THEN <<"authenticate">> ELSE <<>>))
       IN  IF i = 0
           THEN /\ Respond(404, "Route not found")
                /\ reqCtx' = [Headers |-> headers, Route |-> 0, User |-> Nil]
                /\ trace' = [t EXCEPT !.emitted = @ + 1]
           ELSE IF ~cpRoutes[i].AuthRequired
           THEN /\ pc' = "dispatch"
                /\ reqCtx' = [Headers |-> headers, Route |-> i, User |-> Nil]
                /\ trace' = t
                /\ UNCHANGED response
           ELSE IF a.err # ""
           THEN /\ Respond(401, "Authentication failed")
                /\ reqCtx' = [Headers |-> headers, Route |-> i, User |-> Nil]
                /\ trace' = [t EXCEPT
                                !.credChecks = @ \cup a.checks,
                                !.gateErr = a.err,
                                !.emitted = @ + 1]
           ELSE /\ pc' = "dispatch"
                /\ reqCtx' = [Headers |-> headers, Route |-> i,
                              User |-> a.user]
                /\ trace' = [t EXCEPT !.credChecks = @ \cup a.checks]
                /\ UNCHANGED response
    /\ UNCHANGED <<req, gin, authResp, matchVars, allowlist, stratVars, config>>

(***************************************************************************)
(* Strategies.  A strategy receives StrategyParams; every outbound call    *)
(* it issues goes to a ServiceInfo taken from params.Services.  A call is  *)
(* [key, service]: the key its result is filed under and the service it    *)
(* is addressed to.                                                        *)
(***************************************************************************)
EmptyMap == [k \in {} |-> ""]
Put(m, key, v) ==
    [k \in DOMAIN m \cup {key} |-> IF k = key THEN v ELSE m[k]]

StrategyParams(name, mode, route, services, path, user, op) ==
    [strategy |-> name, mode |-> mode, Upstream |-> route.Upstream,
     Upstreams |-> route.Upstreams, Services |-> services, path |-> path,
     UserInfo |-> user, op |-> op]

\* extractPlantID / extractUserID: the path part after the marker part
PartAfter(path, marker) ==
    LET parts == Split(Trim(path))
        at == { i \in 1..Len(parts) : parts[i] = marker /\ i + 1 <= Len(parts) }
    IN  IF at = {} THEN <<>>
        ELSE parts[(CHOOSE i \in at : \A j \in at : i <= j) + 1]

extractPlantID(path) == PartAfter(path, <<"plant">>)

extractUserID(params) ==
    IF params.UserInfo # <<>> /\ params.UserInfo[1].ID # ""
    THEN <<params.UserInfo[1].ID>>
    ELSE PartAfter(params.path, <<"profile">>)

Call(key, service) == [key |-> key, service |-> service]

\* What the GraphQL body asks for, as LocalSchemaStrategy classifies it.
\* "malformed" is a body that reaches the strategy and does not decode
\* into a GraphQLRequest (JSON of another shape, or bytes that are not
\* JSON sent under another content type).  "undecodable" is an
\* application/json body that is not JSON: HandleRequest drops it, the
\* strategy gets a request without body and goes on with an empty query.
BodyKinds == {"", "malformed", "undecodable"}

GraphQLOps ==
    {"analytics", "plants", "users", "dashboard", "introspection",
     "malformed", "undecodable"}

\* The strategy gives up before any call
EarlyError(params) ==
    CASE params.strategy = "proxy" ->
            params.Upstream \notin params.Services
      [] params.strategy = "graphql_proxy" ->
            \/ params.Upstream \notin params.Services
            \/ params.op = "malformed"
      [] params.strategy = "local_schema" -> params.op = "malformed"
      [] params.strategy = "plant_full_report" ->
            extractPlantID(params.path) = <<>>
      [] params.strategy = "user_profile_orchestrator" ->
            extractUserID(params) = <<>>
      [] OTHER -> FALSE

\* The calls a strategy sets out to make
CallsOf(params) ==
    IF EarlyError(params) THEN <<>>
    ELSE CASE params.strategy \in {"proxy", "graphql_proxy"} ->
                 <<Call(params.Upstream, params.Upstream)>>
           [] params.strategy \in {"dashboard_orchestrator",
                                    "plant_full_report"} ->
                 [i \in 1..Len(params.Upstreams) |->
                    Call(params.Upstreams[i], params.Upstreams[i])]
           [] params.strategy = "user_profile_orchestrator" ->
                 <<Call("user_info", "auth"),
                   Call("plants", "plant_management"),
                   Call("devices", "plant_management")>>
           [] params.strategy = "local_schema" ->
                 CASE params.op = "analytics" ->
                        <<Call("analytics", "analytics")>>
                   [] params.op = "plants" ->
                        <<Call("plants", "plant_management")>>
                   [] params.op = "users" -> <<Call("users", "auth")>>
                   [] params.op = "dashboard" ->
                        (IF "analytics" \in params.Services
                         THEN <<Call("analytics", "analytics")>> ELSE <<>>)
                        \o (IF "plant_management" \in params.Services
                            THEN <<Call("plants", "plant_management")>>
                            ELSE <<>>)
                   [] OTHER -> <<>>
           [] OTHER -> <<>>

\* a strategy that addresses its calls by name, whatever params.Services holds
ReachesNamedService(params, call) == TRUE

\* serviceInfo, exists := params.Services[...]: no request leaves without it
Reaches(params, call) == call.service \in params.Services

\* a strategy for which only a 2xx answer with a JSON body is a success
ClassifyStrict(params, call, o) ==
    IF call.service \in params.Services /\ o = "ok" THEN "data" ELSE "error"

\* How one upstream call can end
CallOutcomes ==
    {"ok", "not_found", "server_error", "unavailable", "transport",
     "garbled", "truncated", "redirected"}

\* What client.Do hands back: an http.Client without CheckRedirect follows
\* a 3xx answer that names a Location and returns the response of the
\* place it was sent to (here one that answers 200).
Followed(o) == IF o = "redirected" THEN "ok" ELSE o

\* What a finished call leaves behind: "data", "empty" (an empty list) or
\* "error"
Classify(params, call, o) ==
    IF ~Reaches(params, call) THEN "error"
    ELSE CASE params.strategy \in {"dashboard_orchestrator",
                                    "plant_full_report"} ->
                 IF o \in {"ok", "garbled"} THEN "data" ELSE "error"
           [] params.strategy = "user_profile_orchestrator" ->
                 IF o = "ok" THEN "data"
                 ELSE IF o = "not_found" /\ call.key # "user_info"
                      THEN "empty"
                      ELSE "error"
           [] params.strategy = "proxy" ->
                 IF o = "transport" THEN "error" ELSE "data"
           [] OTHER ->
                 IF o \in {"transport", "garbled", "truncated"}
                 THEN "error" ELSE "data"

\* The state of a running strategy: the calls not yet collected, the
\* results and errors maps, the services requests went out to, the outcome
\* of the last request, what Execute returned, and how each collected call
\* ended (outcome: what client.Do handed back; replied: how the upstream
\* service itself answered).
Started(params) ==
    [pending |-> 1..Len(CallsOf(params)), results |-> EmptyMap,
     errors |-> EmptyMap, calls |-> {}, upstream |-> "", ret |-> "",
     finished |-> EmptyMap]

\* The goroutines of a fan-out finish in any order; LocalSchemaStrategy
\* makes its calls one after the other.
NextCalls(params, st) ==
    IF params.strategy = "local_schema"
    THEN { i \in st.pending : \A j \in st.pending : i <= j }
    ELSE st.pending

\* What is filed under a key: the data (or the error) call i came back with
Filed(kind, i) == [kind |-> kind, from |-> i]

\* One call ends and its result is collected
CallReturns(o) ==
    /\ sIn # <<>> /\ sOut # <<>>
    /\ sOut[1].ret = ""
    /\ \E i \in NextCalls(sIn[1], sOut[1]) :
       LET params == sIn[1]
           st == sOut[1]
           call == CallsOf(params)[i]
           got == Followed(o)
           kind == Classify(params, call, got)
       IN  /\ ~Reaches(params, call) => o = "transport"
           /\ ProcessCtxDone => o = "transport"
           /\ sOut' = Some(
                 [st EXCEPT
                    !.pending = @ \ {i},
                    !.finished =
                        Put(@, i, [kind |-> kind,
                                   outcome |-> IF Reaches(params, call)
                                               THEN got ELSE "unconfigured",
                                   replied |-> o]),
                    !.calls = IF Reaches(params, call)
                              THEN @ \cup {call.service} ELSE @,
                    !.upstream = IF Reaches(params, call) THEN got ELSE @,
                    !.results = IF kind = "error" THEN @
                                ELSE Put(@, call.key, Filed(kind, i)),
                    !.errors = IF kind = "error"
                               THEN Put(@, call.key, Filed(kind, i))
                               ELSE @])
    /\ UNCHANGED <<pipeVars, matchVars, allowlist, config, sIn>>

\* a strategy that gives up as soon as one call has failed
ReturnedAllOrNothing(params, st) ==
    IF EarlyError(params) \/ DOMAIN st.errors # {} THEN "err" ELSE "ok"

\* What Execute returns once every call has been collected: "err" for an
\* error, "ok" for a result
Returned(params, st) ==
    IF EarlyError(params) THEN "err"
    ELSE CASE params.strategy \in {"proxy", "graphql_proxy"} ->
                 IF DOMAIN st.errors # {} THEN "err" ELSE "ok"
           [] params.strategy = "plant_full_report" ->
                 IF DOMAIN st.errors # {}
                    /\ "plant_management" \notin DOMAIN st.results
                 THEN "err" ELSE "ok"
           [] params.strategy = "user_profile_orchestrator" ->
                 IF "user_info" \notin DOMAIN st.results
                 THEN "err" ELSE "ok"
           [] OTHER -> "ok"

\* The top-level keys of the map a fan-out strategy returns
ResultKeys(params, st) ==
    CASE params.strategy = "dashboard_orchestrator" ->
            {"timestamp", "data"}
                \cup (IF DOMAIN st.errors # {} THEN {"errors"} ELSE {})
      [] params.strategy = "plant_full_report" ->
            {"plant_id", "timestamp", "report"}
                \cup (IF DOMAIN st.errors # {} THEN {"errors"} ELSE {})
      [] params.strategy = "user_profile_orchestrator" ->
            {"timestamp", "user", "plants", "devices", "stats"}
                \cup (IF DOMAIN st.errors # {} THEN {"partial_errors"}
                      ELSE {})
      [] OTHER -> {}

\* The strategy's Execute returns
ExecuteReturns ==
    /\ sIn # <<>> /\ sOut # <<>>
    /\ sOut[1].ret = ""
    /\ sOut[1].pending = {}
    /\ sOut' = Some([sOut[1] EXCEPT !.ret = Returned(sIn[1], sOut[1])])
    /\ UNCHANGED <<pipeVars, matchVars, allowlist, config, sIn>>

(***************************************************************************)
(* Mode dispatch.  A strategy execution is recorded with the UserInfo it   *)
(* was given (convertUser keeps nil as nil).                               *)
(***************************************************************************)
\* GetRouteConfig hands out a copy of the route it found, so the route of
\* a request is the one of the Config the pipeline's lookup read.
CurrentRoute == RoutesOf(trace.routeCfg)[reqCtx.Route]

\* ExecuteStrategy is entered with the params the mode handler built
Execute(name, services, looked, op) ==
    /\ trace' = [Stage(Saw(trace, looked), <<"dispatch">>) EXCEPT
                    !.executed = <<[name |-> name, UserInfo |-> reqCtx.User]>>]
    /\ pc' = "upstream"
    /\ LET params == StrategyParams(name, CurrentRoute.Mode, CurrentRoute,
                                    services, req.Path, reqCtx.User, op)
       IN  /\ sIn' = Some(params)
           /\ sOut' = Some(Started(params))
    /\ UNCHANGED response

Fail(status, msg, looked) ==
    /\ Respond(status, msg)
    /\ trace' = [Stage(Saw(trace, looked), <<"dispatch">>) EXCEPT
                    !.emitted = @ + 1]
    /\ UNCHANGED stratVars

\* GatewayService.handleProxyMode up to the upstream call
handleProxyMode ==
    /\ pc = "dispatch"
    /\ CurrentRoute.Mode = "proxy"
    /\ LET name == IF CurrentRoute.Strategy = "" THEN "proxy"
                   ELSE CurrentRoute.Strategy
       IN  IF ~GetServiceConfig(CurrentRoute.Upstream)
           THEN Fail(502, "Upstream service not configured", TRUE)
           ELSE IF name \notin Registered
           THEN Fail(502, "Upstream service error", TRUE)
           ELSE Execute(name, {CurrentRoute.Upstream}, TRUE, "")
    /\ UNCHANGED <<req, gin, reqCtx, authResp, matchVars, allowlist, config>>

\* the services handleLogicMode hands to the strategy: the upstreams that
\* GetServiceConfig finds
LogicServices(upstreams, known) ==
    { upstreams[k] : k \in { j \in 1..Len(upstreams) : upstreams[j] \in known } }

\* GatewayService.handleLogicMode up to the upstream calls
handleLogicMode ==
    /\ pc = "dispatch"
    /\ CurrentRoute.Mode = "logic"
    /\ LET ups == CurrentRoute.Upstreams
           services == LogicServices(ups, cpServices)
       IN  IF CurrentRoute.Strategy \notin Registered
           THEN Fail(500, "Strategy execution failed", ups # <<>>)
           ELSE Execute(CurrentRoute.Strategy, services, ups # <<>>, "")
    /\ UNCHANGED <<req, gin, reqCtx, authResp, matchVars, allowlist, config>>

\* GatewayService.handleGraphQLMode up to the upstream call
handleGraphQLMode(op) ==
    /\ pc = "dispatch"
    /\ CurrentRoute.Mode = "graphql"
    /\ LET services == IF CurrentRoute.Upstream # ""
                          /\ GetServiceConfig(CurrentRoute.Upstream)
                       THEN {CurrentRoute.Upstream} ELSE {}
       IN  IF CurrentRoute.Strategy \notin Registered
           THEN /\ op = ""
                /\ Fail(500, "GraphQL execution failed",
                        CurrentRoute.Upstream # "")
           ELSE /\ op \in IF CurrentRoute.Strategy = "local_schema"
                          THEN GraphQLOps ELSE BodyKinds
                /\ Execute(CurrentRoute.Strategy, services,
                           CurrentRoute.Upstream # "", op)
    /\ UNCHANGED <<req, gin, reqCtx, authResp, matchVars, allowlist, config>>

\* ProcessRequest, default branch of the mode switch
UnsupportedMode ==
    /\ pc = "dispatch"
    /\ CurrentRoute.Mode \notin {"proxy", "logic", "graphql"}
    /\ Fail(400, "Unsupported route mode: " \o CurrentRoute.Mode, FALSE)
    /\ UNCHANGED <<req, gin, reqCtx, authResp, matchVars, allowlist, config>>

\* The status of the upstream's HTTP response
UpstreamStatus(o) ==
    CASE o = "not_found" -> 404
      [] o = "server_error" -> 500
      [] o = "unavailable" -> 503
      [] OTHER -> 200

\* The response the mode handler builds from what ExecuteStrategy returned,
\* as HandleRequest writes it.  The proxy strategy returns the upstream's
\* *http.Response, which convertHTTPResponse reads.
ResponseOf(params, st) ==
    CASE params.mode = "proxy" ->
            IF st.ret = "err"
            THEN ErrorResponse(502, "Upstream service error")
            ELSE IF params.strategy # "proxy" THEN ErrorResponse(200, "")
            ELSE IF st.upstream = "truncated"
            THEN ErrorResponse(500, "Internal server error")
            ELSE ErrorResponse(UpstreamStatus(st.upstream), "")
      [] params.mode = "logic" ->
            IF st.ret = "err"
            THEN ErrorResponse(500, "Strategy execution failed")
            ELSE ErrorResponse(200, "")
      [] OTHER ->
            IF st.ret = "err"
            THEN ErrorResponse(500, "GraphQL execution failed")
            ELSE ErrorResponse(200, "")

\* ExecuteStrategy has returned; the mode handler builds the response and
\* HandleRequest writes it.
StrategyReturns ==
    /\ pc = "upstream"
    /\ sIn # <<>> /\ sOut # <<>>
    /\ sOut[1].ret # ""
    /\ response' = ResponseOf(sIn[1], sOut[1])
    /\ pc' = "done"
    /\ trace' = [trace EXCEPT !.emitted = @ + 1]
    /\ UNCHANGED <<req, gin, reqCtx, authResp, matchVars, allowlist, stratVars, config>>

\* The response has been written; the request context is dropped.
Complete ==
    /\ pc = "done"
    /\ pc' = "idle"
    /\ req' = NoRequest
    /\ gin' = [user |-> Nil, aborted |-> FALSE]
    /\ reqCtx' = NoContext
    /\ response' = NoResponse
    /\ authResp' = Nil
    /\ trace' = NoTrace
    /\ sIn' = <<>>
    /\ sOut' = <<>>
    /\ UNCHANGED <<matchVars, allowlist, config>>

Next ==
    \/ \E r \in Requests : Receive(r)
    \/ ValidateRequest
    \/ \E r \in AuthResponses : ValidateTokenReturns(r)
    \/ ProcessRequest
    \/ handleProxyMode
    \/ handleLogicMode
    \/ \E op \in GraphQLOps \cup {""} : handleGraphQLMode(op)
    \/ UnsupportedMode
    \/ \E o \in CallOutcomes : CallReturns(o)
    \/ ExecuteReturns
    \/ StrategyReturns
    \/ Complete

Spec == Init /\ [][Next]_vars

(***************************************************************************)
(* ConfigProvider.ReloadConfig, called from another goroutine while        *)
(* requests are handled.  The store to cp.config is not synchronised with  *)
(* the handlers' reads; a read returns the pointer stored before or after, *)
(* which is what the interleaving of this action with the others gives.    *)
(***************************************************************************)
ReloadConfig ==
    /\ \E c \in Configs : config' = c
    /\ UNCHANGED <<pipeVars, matchVars, allowlist, stratVars>>

NextReload == Next \/ ReloadConfig

SpecReload == Init /\ [][NextReload]_vars

(***************************************************************************)
(* The client closes its connection while its request is being handled:    *)
(* net/http cancels c.Request.Context().  The handlers do not look at the  *)
(* connection, so they go on.                                              *)
(***************************************************************************)
ClientDisconnects ==
    /\ pc \in {"middleware", "validating", "handler", "dispatch", "upstream"}
    /\ trace.goneAt = ""
    /\ trace' = [trace EXCEPT !.goneAt = pc]
    /\ UNCHANGED <<pc, req, gin, reqCtx, response, authResp, matchVars, allowlist,
                   stratVars, config>>

NextCancel == Next \/ ClientDisconnects

SpecCancel == Init /\ [][NextCancel]_vars

(***************************************************************************)
(* AuthService.apiKeys under concurrent use.  ValidateAPIKey runs on the   *)
(* goroutine of a request; AddAPIKey and RemoveAPIKey are called from      *)
(* other goroutines.  None of the three takes a lock: each one enters the  *)
(* map access as soon as it is called.  A map access takes time, so it has *)
(* a begin and an end.  A write that overlaps another access is a data     *)
(* race: the Go runtime may stop the process ("concurrent map writes") and *)
(* the write may or may not be seen.                                       *)
(***************************************************************************)
Goroutines == {"request1", "request2", "admin1", "admin2"}
KeyNames == {"test-api-key", "bogus"}

Access(g, op, key) == [who |-> g, op |-> op, key |-> key]

Busy(g) == \E a \in allowlist.inMap : a.who = g

\* as.mu.Lock() / as.mu.RLock(): AuthService has no mutex field, the
\* methods acquire nothing and are never kept waiting
MayEnter(op) == TRUE

KeyFrame == UNCHANGED <<pipeVars, matchVars, stratVars, config>>

\* valid, exists := as.apiKeys[apiKey]
ValidateAPIKeyBegins(g, key) ==
    /\ ~allowlist.fatal
    /\ g \in {"request1", "request2"}
    /\ ~Busy(g)
    /\ MayEnter("read")
    /\ allowlist' = [allowlist EXCEPT
                        !.inMap = @ \cup {Access(g, "read", key)}]
    /\ KeyFrame

\* as.apiKeys[apiKey] = true   and   delete(as.apiKeys, apiKey)
WriteBegins(g, op, key) ==
    /\ ~allowlist.fatal
    /\ g \in {"admin1", "admin2"}
    /\ ~Busy(g)
    /\ MayEnter(op)
    /\ allowlist' = [allowlist EXCEPT !.inMap = @ \cup {Access(g, op, key)}]
    /\ KeyFrame

AddAPIKeyBegins(g, key) == WriteBegins(g, "add", key)

RemoveAPIKeyBegins(g, key) == WriteBegins(g, "remove", key)

\* the map after the write of access a
Written(keys, a) ==
    IF a.op = "add" THEN keys \cup {a.key} ELSE keys \ {a.key}

\* the access of goroutine g is over
AccessEnds(g) ==
    /\ ~allowlist.fatal
    /\ \E a \in allowlist.inMap :
          /\ a.who = g
          /\ LET others == allowlist.inMap \ {a}
                 raced == \/ a.op # "read" /\ others # {}
                          \/ \E b \in others : b.op # "read"
             IN  \E seen \in BOOLEAN, dies \in BOOLEAN :
                    /\ ~raced => seen /\ ~dies
                    /\ allowlist' =
                          [keys |-> IF a.op = "read" \/ ~seen
                                    THEN allowlist.keys
                                    ELSE Written(allowlist.keys, a),
                           inMap |-> others,
                           fatal |-> dies]
    /\ KeyFrame

NextKeys ==
    \/ \E g \in Goroutines, key \in KeyNames : ValidateAPIKeyBegins(g, key)
    \/ \E g \in Goroutines, key \in KeyNames : AddAPIKeyBegins(g, key)
    \/ \E g \in Goroutines, key \in KeyNames : RemoveAPIKeyBegins(g, key)
    \/ \E g \in Goroutines : AccessEnds(g)

SpecKeys == Init /\ [][NextKeys]_vars

(***************************************************************************)
(* Route matcher on its own: GetRouteConfig applied to bounded route       *)
(* tables and inbound paths.                                               *)
(***************************************************************************)
MaxRouteSegs == 3
MaxPathSegs == 3
MaxRoutes == 3

RouteSegs == { <<"a">>, <<"{", "i", "}">>, <<"*">>, <<>> }
PathSegs == { <<"a">>, <<"a", "2">>, <<"b">>, <<>> }

\* "/" seg1 "/" seg2 ...
RECURSIVE JoinPath(_)
JoinPath(segs) ==
    IF segs = <<>> THEN <<>>
    ELSE <<"/">> \o Head(segs) \o JoinPath(Tail(segs))

SeqsUpTo(S, n) == UNION { [1..k -> S] : k \in 1..n }

RoutePaths ==
    { JoinPath(segs) : segs \in SeqsUpTo(RouteSegs, MaxRouteSegs) }
        \cup { <<"*">> }

PathsUpTo(n) == { JoinPath(segs) : segs \in SeqsUpTo(PathSegs, n) }

SingleRouteTables ==
    { << [Path |-> p, Method |-> m] >> : p \in RoutePaths, m \in {"GET", "*"} }

LookupRoutes ==
    { [Path |-> <<"/", "a", "/", "*">>, Method |-> "GET"],
      [Path |-> <<"/", "a", "/", "{", "i", "}">>, Method |-> "GET"],
      [Path |-> <<"/", "a", "/", "b">>, Method |-> "GET"],
      [Path |-> <<"/", "*">>, Method |-> "*"],
      [Path |-> <<"/", "b">>, Method |-> "POST"] }

InitMatch ==
    /\ PipeIdle
    /\ StratIdle
    /\ mTable \in SingleRouteTables
    /\ mPath \in PathsUpTo(MaxPathSegs)
    /\ mMethod \in {"GET", "POST"}
    /\ mResult = Nil

InitLookup ==
    /\ PipeIdle
    /\ StratIdle
    /\ mTable \in SeqsUpTo(LookupRoutes, MaxRoutes)
    /\ mPath \in PathsUpTo(2)
    /\ mMethod \in {"GET", "POST"}
    /\ mResult = Nil

\* One call of GetRouteConfig(mPath, mMethod) on the table, recording the
\* route returned and what matchRoute said of each route.
Lookup ==
    /\ mResult = Nil
    /\ mResult' =
         Some([index |-> GetRouteConfig(mTable, mPath, mMethod),
               matched |-> [i \in 1..Len(mTable) |->
                              matchRoute(mTable[i], mPath, mMethod)]])
    /\ UNCHANGED <<mTable, mPath, mMethod, pipeVars, stratVars, config,
                   allowlist>>

SpecMatch == InitMatch /\ [][Lookup]_vars

SpecLookup == InitLookup /\ [][Lookup]_vars

(***************************************************************************)
(* ProxyStrategy: target path                                              *)
(***************************************************************************)
\* strings.ReplaceAll(s, old, new), old not empty
RECURSIVE ReplaceAll(_, _, _)
ReplaceAll(s, old, new) ==
    IF Len(s) < Len(old) THEN s
    ELSE IF SubSeq(s, 1, Len(old)) = old
    THEN new \o ReplaceAll(SubSeq(s, Len(old) + 1, Len(s)), old, new)
    ELSE <<Head(s)>> \o ReplaceAll(Tail(s), old, new)

\* strings.Contains(s, "*")
ContainsStar(s) == \E k \in 1..Len(s) : s[k] = "*"

\* strings.Join(parts, "/")
RECURSIVE Join(_)
Join(parts) ==
    IF parts = <<>> THEN <<>>
    ELSE IF Len(parts) = 1 THEN parts[1]
    ELSE parts[1] \o <<"/">> \o Join(Tail(parts))

\* the loop replacing each {name} part of the route by the request's part
RECURSIVE ReplaceParams(_, _, _, _)
ReplaceParams(result, routeParts, requestParts, i) ==
    IF i > Len(routeParts) THEN result
    ELSE ReplaceParams(
           IF IsParam(routeParts[i])
           THEN ReplaceAll(result, routeParts[i], requestParts[i])
           ELSE result,
           routeParts, requestParts, i + 1)

replacePathParameters(targetPath, requestPath, routePath) ==
    LET routeParts == Split(Trim(routePath))
        requestParts == Split(Trim(requestPath))
    IN  IF routeParts[Len(routeParts)] = <<"*">>
        THEN LET routePrefix == SubSeq(routeParts, 1, Len(routeParts) - 1)
             IN  IF Len(requestParts) >= Len(routePrefix)
                 THEN LET result == ReplaceParams(targetPath, routePrefix,
                                                  requestParts, 1)
                          remainingParts ==
                              SubSeq(requestParts, Len(routePrefix) + 1,
                                     Len(requestParts))
                      IN  IF ContainsStar(result)
                          THEN ReplaceAll(result, <<"*">>,
                                          Join(remainingParts))
                          ELSE result
                 ELSE targetPath
        ELSE IF Len(routeParts) # Len(requestParts) THEN targetPath
        ELSE ReplaceParams(targetPath, routeParts, requestParts, 1)

\* ProxyStrategy.Execute: the path of the outbound URL
TargetPathOf(route, requestPath) ==
    replacePathParameters(
        IF route.TargetPath = <<>> THEN requestPath ELSE route.TargetPath,
        requestPath, route.Path)

\* Routes handed to the proxy strategy: target_path is the route's own
\* pattern, another template, or absent.
TargetTemplates == { <<>>, <<"/", "v", "/", "{", "i", "}", "/", "*">> }

\* the routes of path p, with no target_path, one of their own or the
\* path itself, and the request paths
RewriteInputs(p) ==
    { [route |-> [Path |-> p, Method |-> "*", TargetPath |-> t], path |-> q] :
        t \in TargetTemplates \cup {p}, q \in PathsUpTo(MaxPathSegs) }

InitRewrite ==
    /\ PipeIdle
    /\ MatchIdle
    /\ sIn \in { Some(x) : x \in
                   { y \in UNION { RewriteInputs(p) : p \in RoutePaths } :
                       matchRoute(y.route, y.path, "GET") } }
    /\ sOut = <<>>

\* One execution of the proxy strategy up to the outbound URL's path
Rewrite ==
    /\ sIn # <<>>
    /\ sOut = <<>>
    /\ sOut' = Some(TargetPathOf(sIn[1].route, sIn[1].path))
    /\ UNCHANGED <<pipeVars, matchVars, allowlist, config, sIn>>

SpecRewrite == InitRewrite /\ [][Rewrite]_vars

(***************************************************************************)
(* Proxy mode: what of the inbound query string and headers reaches the    *)
(* outbound request.  A query string is the sequence of its key=value      *)
(* pairs; a header is its name as written on the wire.                     *)
(***************************************************************************)
MaxQueryParams == 2
MaxHeaders == 2

QueryKeys == <<"a", "b">>
QueryPairs == { <<k, v>> : k \in {"a", "b"}, v \in {"1", "2"} }
RawQueries == {<<>>} \cup SeqsUpTo(QueryPairs, MaxQueryParams)

HeaderNames ==
    { "connection", "CONNECTION", "Keep-Alive", "KEEP-ALIVE",
      "Proxy-Authenticate", "proxy-authorization", "te", "TE", "Trailers",
      "transfer-encoding", "Upgrade", "UPGRADE", "Accept", "x-trace" }

\* url.URL.Query(): the values of each key in their order of appearance
RECURSIVE ValuesOf(_, _)
ValuesOf(raw, key) ==
    IF raw = <<>> THEN <<>>
    ELSE (IF Head(raw)[1] = key THEN <<Head(raw)[2]>> ELSE <<>>)
            \o ValuesOf(Tail(raw), key)

\* HandleRequest: reqCtx.Query[key] = values[0]
CaptureQuery(raw) ==
    [ key \in { raw[i][1] : i \in 1..Len(raw) } |-> ValuesOf(raw, key)[1] ]

\* url.Values.Encode(): the pairs sorted by key
RECURSIVE EncodeFrom(_, _)
EncodeFrom(query, i) ==
    IF i > Len(QueryKeys) THEN <<>>
    ELSE (IF QueryKeys[i] \in DOMAIN query
          THEN << <<QueryKeys[i], query[QueryKeys[i]]>> >> ELSE <<>>)
            \o EncodeFrom(query, i + 1)

Encode(query) == EncodeFrom(query, 1)

\* HandleRequest: reqCtx.Headers[strings.ToLower(key)]
CaptureHeaders(names) == { LowerAtom(n) : n \in names }

\* http.Header.Set: textproto.CanonicalMIMEHeaderKey of the name
CanonicalMIMEHeaderKey(lower) ==
    CASE lower = "connection" -> "Connection"
      [] lower = "keep-alive" -> "Keep-Alive"
      [] lower = "proxy-authenticate" -> "Proxy-Authenticate"
      [] lower = "proxy-authorization" -> "Proxy-Authorization"
      [] lower = "te" -> "Te"
      [] lower = "trailers" -> "Trailers"
      [] lower = "transfer-encoding" -> "Transfer-Encoding"
      [] lower = "upgrade" -> "Upgrade"
      [] lower = "accept" -> "Accept"
      [] lower = "x-trace" -> "X-Trace"
      [] OTHER -> lower

\* GatewayService.createHTTPRequestFromContext
createHTTPRequestFromContext(ctx) ==
    [ RawQuery |-> IF DOMAIN ctx.Query = {} THEN <<>> ELSE Encode(ctx.Query),
      Header |-> { CanonicalMIMEHeaderKey(k) :
                     k \in ctx.Headers \ {"x-raw-body"} } ]

hopByHopHeaders ==
    { "Connection", "Keep-Alive", "Proxy-Authenticate", "Proxy-Authorization",
      "Te", "Trailers", "Transfer-Encoding", "Upgrade" }

\* a filter that lower-cases the name but not the list it is compared to
shouldForwardHeaderOneSided(name) == LowerAtom(name) \notin hopByHopHeaders

shouldForwardHeader(name) ==
    LowerAtom(name) \notin { LowerAtom(header) : header \in hopByHopHeaders }

\* ProxyStrategy.Execute: query and headers of the outbound request
ProxyRequest(request) ==
    [ RawQuery |-> request.RawQuery,
      Header |-> { name \in request.Header : shouldForwardHeader(name) } ]

InitProxy ==
    /\ PipeIdle
    /\ MatchIdle
    /\ sIn \in { Some([query |-> q, headers |-> h]) :
                   q \in RawQueries,
                   h \in { x \in SUBSET HeaderNames :
                             Cardinality(x) <= MaxHeaders } }
    /\ sOut = <<>>

\* One proxied request: HandleRequest captures query and headers,
\* handleProxyMode rebuilds an http.Request from them, the proxy strategy
\* builds the outbound request.
Proxy ==
    /\ sIn # <<>>
    /\ sOut = <<>>
    /\ LET ctx == [Query |-> CaptureQuery(sIn[1].query),
                   Headers |-> CaptureHeaders(sIn[1].headers)]
       IN  sOut' = Some(ProxyRequest(createHTTPRequestFromContext(ctx)))
    /\ UNCHANGED <<pipeVars, matchVars, allowlist, config, sIn>>

SpecProxy == InitProxy /\ [][Proxy]_vars

(***************************************************************************)
(* The fan-out strategies on their own: a logic route with any upstream    *)
(* list, the params handleLogicMode builds for it, and every combination   *)
(* of outcomes of the calls, collected in any order.                       *)
(***************************************************************************)
MaxUpstreams == 2

FanoutStrategies ==
    {"dashboard_orchestrator", "plant_full_report",
     "user_profile_orchestrator"}

\* ghost is a service no Config declares at startup
UpstreamNames == {"analytics", "auth", "plant_management", "ghost"}

FanoutPaths ==
    { <<"/", "plant", "/", "7", "/", "report">>, <<"/", "plant">>,
      <<"/", "profile", "/", "7">>, <<"/", "me">> }

LogicRoute(strategy, upstreams) ==
    Route(<<"/", "*">>, "*", "logic", strategy, "", upstreams, FALSE)

InitFanout ==
    /\ PipeIdle
    /\ MatchIdle
    /\ \E strategy \in FanoutStrategies,
          upstreams \in {<<>>} \cup SeqsUpTo(UpstreamNames, MaxUpstreams),
          path \in FanoutPaths,
          user \in {Nil, Some(User("u1", "u1", "a@x", <<"user">>))} :
          LET params == StrategyParams(strategy, "logic",
                            LogicRoute(strategy, upstreams),
                            LogicServices(upstreams, Services), path, user, "")
          IN  /\ sIn = Some(params)
              /\ sOut = Some(Started(params))

NextFanout ==
    \/ \E o \in CallOutcomes : CallReturns(o)
    \/ ExecuteReturns

SpecFanout == InitFanout /\ [][NextFanout]_vars

(***************************************************************************)
(* The deadline of a proxy call.  Durations are whole seconds; 0 is the    *)
(* zero time.Duration, which is what yaml leaves in ServiceConfig.Timeout  *)
(* when the service entry has no timeout key.  The environment variables   *)
(* that override the defaults are taken to be unset.                       *)
(***************************************************************************)
MaxClock == 12

YamlTimeouts == {0, 2, 5}

\* the services section of the YAML file: each declared name with its
\* timeout
YamlServices ==
    { [declared |-> d, Timeout |-> t] :
        d \in SUBSET {"analytics", "ghost"}, t \in YamlTimeouts }

\* Config.populateDefaults: a default service the file does not declare is
\* added with a timeout of 10s; a declared entry is left as it is
populateDefaults(yaml) ==
    [name \in yaml.declared \cup Services |->
        IF name \in yaml.declared THEN [Timeout |-> yaml.Timeout]
        ELSE [Timeout |-> 10]]

\* time.Duration.String(): never the empty string, "0s" for zero
DurationString(d) == <<d, "s">>

\* time.ParseDuration on what String() printed
ParseDuration(str) ==
    IF Len(str) = 2 /\ str[2] = "s" THEN [d |-> str[1], err |-> FALSE]
    ELSE [d |-> 0, err |-> TRUE]

\* ConfigProvider.GetServiceConfig: ServiceInfo.Timeout
ServiceInfoTimeout(services, name) == DurationString(services[name].Timeout)

\* ProxyStrategy.Execute, "Set timeout": the Timeout of the http.Client
ClientTimeout(infoTimeout) ==
    IF infoTimeout # <<>> /\ ~ParseDuration(infoTimeout).err
    THEN ParseDuration(infoTimeout).d
    ELSE 30

InitTimeout ==
    /\ PipeIdle
    /\ MatchIdle
    /\ \E yaml \in YamlServices, name \in Services \cup {"ghost"} :
          /\ name \in DOMAIN populateDefaults(yaml)
          /\ sIn = Some([yaml |-> yaml, Upstream |-> name])
    /\ sOut = <<>>

\* client.Do is called: the request is on its way to an upstream that
\* does not answer
ProxyCallStarts ==
    /\ sIn # <<>>
    /\ sOut = <<>>
    /\ LET services == populateDefaults(sIn[1].yaml)
           timeout == ClientTimeout(
                          ServiceInfoTimeout(services, sIn[1].Upstream))
       IN  sOut' = Some([Timeout |-> timeout, waited |-> 0,
                         returned |-> FALSE])
    /\ UNCHANGED <<pipeVars, matchVars, allowlist, config, sIn>>

\* a second goes by without an answer
Wait ==
    /\ sOut # <<>>
    /\ ~sOut[1].returned
    /\ sOut[1].waited < MaxClock
    /\ sOut[1].Timeout = 0 \/ sOut[1].waited < sOut[1].Timeout
    /\ sOut' = Some([sOut[1] EXCEPT !.waited = @ + 1])
    /\ UNCHANGED <<pipeVars, matchVars, allowlist, config, sIn>>

\* http.Client.Timeout: "A Timeout of zero means no timeout"; a positive
\* one makes client.Do return an error once it has elapsed
DeadlineExceeded ==
    /\ sOut # <<>>
    /\ ~sOut[1].returned
    /\ sOut[1].Timeout # 0
    /\ sOut[1].waited >= sOut[1].Timeout
    /\ sOut' = Some([sOut[1] EXCEPT !.returned = TRUE])
    /\ UNCHANGED <<pipeVars, matchVars, allowlist, config, sIn>>

NextTimeout == ProxyCallStarts \/ Wait \/ DeadlineExceeded

SpecTimeout == InitTimeout /\ [][NextTimeout]_vars

(***************************************************************************)
(* Properties                                                              *)
(***************************************************************************)
UpstreamCalls ==
    (trace.calls \ {"auth:validate"})
        \cup (IF sOut = <<>> THEN {} ELSE sOut[1].calls)

Dispatching == pc \in {"dispatch", "upstream"} \/ trace.executed # <<>>

\* The route the request resolves to requires authentication
MatchedAuthRequired(r) ==
    \E i \in 1..Len(Routes) :
        /\ matchRoute(Routes[i], r.Path, r.Method)
        /\ \A j \in 1..(i - 1) : ~matchRoute(Routes[j], r.Path, r.Method)
        /\ Routes[i].AuthRequired

\* The auth service accepted the token: HTTP 200, body parses, valid=true
Accepted(r) ==
    r.err = "none" /\ r.StatusCode = 200 /\ r.parses /\ r.Valid

\* Authentication of the request failed, in the middleware or in the gate
MwAuthFailed ==
    \/ trace.mwDecision \in {"missing", "format"}
    \/ authResp # Nil /\ ~Accepted(authResp[1])

AuthFailed == MwAuthFailed \/ trace.gateErr # ""

\* C1: a request whose matched route has auth_required=true is either
\* answered 401 or carries a Principal whenever it is being dispatched; no
\* strategy is ever executed for it without a Principal.
C1_AuthRequiredHasPrincipal ==
    (reqCtx.Route # 0 /\ Routes[reqCtx.Route].AuthRequired) =>
        \/ response.StatusCode = 401
        \/ /\ (Dispatching \/ UpstreamCalls # {}) => reqCtx.User # Nil
           /\ \A k \in 1..Len(trace.executed) :
                 trace.executed[k].UserInfo # Nil

C1_Witness ==
    /\ reqCtx.Route # 0
    /\ Routes[reqCtx.Route].AuthRequired
    /\ pc = "upstream"
    /\ trace.executed # <<>>
    /\ trace.executed[1].UserInfo # Nil

C3_OptionsNeverAuthenticated ==
    req.Method = "OPTIONS" =>
        /\ trace.credChecks = {}
        /\ response.StatusCode # 401

\* C4: on an auth_required route a request with an allowlisted X-API-Key is
\* authenticated by the key alone: no bearer validation is performed and
\* it is dispatched as api-key-user, with or without Authorization header.
C4_APIKeyAloneAuthenticates ==
    (/\ pc = "done"
     /\ MatchedAuthRequired(req)
     /\ req.XAPIKey # Nil
     /\ req.XAPIKey[1] \in apiKeys) =>
        /\ response.StatusCode # 401
        /\ reqCtx.User = Some(APIKeyUser)
        /\ trace.credChecks \cap {"remote", "jwt"} = {}

\* C5: the bearer scheme is matched case-insensitively: a request whose
\* Authorization header spells the scheme Bearer, bearer or BEARER gets the
\* authentication outcome of the same request spelled "Bearer".  Stated for
\* the methods that are subject to authentication (OPTIONS is C3's).
IsBearerSpelled(h) ==
    Len(h) > 2 /\ h[1] \in Schemes /\ h[2] = " "

SpelledBearer(r) ==
    [r EXCEPT !.Authorization = Some([r.Authorization[1] EXCEPT ![1] = "Bearer"])]

\* Outcome of authentication for request r when the auth service answers ar
AuthOutcomeOf(r, ar) ==
    LET d == MwDecision(r)
        i == GetRouteConfig(Routes, r.Path, r.Method)
        a == authenticateRequest([authorization |-> r.Authorization,
                                  xapikey |-> r.XAPIKey])
    IN  IF d \in {"missing", "format"} THEN [failed |-> TRUE, user |-> Nil]
        ELSE IF d = "validate" /\ validateToken(ar[1]) = Nil
        THEN [failed |-> TRUE, user |-> Nil]
        ELSE IF i = 0 \/ ~Routes[i].AuthRequired
        THEN [failed |-> FALSE, user |-> Nil]
        ELSE IF a.err # "" THEN [failed |-> TRUE, user |-> Nil]
        ELSE [failed |-> FALSE, user |-> a.user]

C5_SchemeCaseInsensitive ==
    (/\ pc = "done"
     /\ req.Method # "OPTIONS"
     /\ req.Authorization # Nil
     /\ IsBearerSpelled(req.Authorization[1])) =>
        [failed |-> AuthFailed, user |-> reqCtx.User]
            = AuthOutcomeOf(SpelledBearer(req), authResp)

\* C6: remote token validation succeeds exactly when the auth service
\* answers 200 with a body that parses and has valid=true; on every other
\* answer the request is answered 401 and goes no further.
C6_RemoteValidationExact ==
    authResp # Nil =>
        IF Accepted(authResp[1])
        THEN /\ gin.user # Nil
             /\ ~gin.aborted
        ELSE /\ gin.user = Nil
             /\ pc = "done"
             /\ response.StatusCode = 401
             /\ response.error # ""
             /\ trace.executed = <<>>
             /\ UpstreamCalls = {}

C6_Witness ==
    /\ authResp # Nil
    /\ authResp[1].StatusCode = 500
    /\ authResp[1].Valid
    /\ response.StatusCode = 401

\* C7: whenever the auth service accepts the request's bearer token the
\* request is dispatched (not answered 401) and the Principal carries the
\* user id, email and roles of the validation response.  Stated for
\* requests whose only credential is the bearer token.
C7_AcceptedTokenDispatches ==
    (/\ pc = "done"
     /\ req.XAPIKey = Nil
     /\ authResp # Nil
     /\ Accepted(authResp[1])) =>
        /\ response.StatusCode # 401
        /\ reqCtx.User # Nil
        /\ reqCtx.User[1].ID = authResp[1].UserID
        /\ reqCtx.User[1].Email = authResp[1].Email
        /\ reqCtx.User[1].Roles = authResp[1].Roles

\* C8: a request that no configured route matches is answered 404
\* "Route not found"; no credential check is performed and no outbound
\* call is issued for it.
NoRouteMatches(r) ==
    \A i \in 1..Len(Routes) : ~matchRoute(Routes[i], r.Path, r.Method)

C8_UnmatchedIs404 ==
    (pc # "idle" /\ NoRouteMatches(req)) =>
        /\ trace.credChecks = {}
        /\ trace.calls = {}
        /\ trace.executed = <<>>
        /\ pc = "done" => response = ErrorResponse(404, "Route not found")

C8_Witness ==
    /\ pc = "done"
    /\ NoRouteMatches(req)
    /\ req.Method = "GET"
    /\ req.Authorization # Nil
    /\ response = ErrorResponse(404, "Route not found")

\* C9: GetRouteConfig returns the first route, in declaration order, that
\* matches the request, whatever the specificity of the routes after it,
\* and returns a route iff at least one matches.
C9_FirstMatchWins ==
    mResult # Nil =>
        LET M == { i \in 1..Len(mTable) :
                     matchRoute(mTable[i], mPath, mMethod) }
            r == mResult[1].index
        IN  /\ r # 0 <=> M # {}
            /\ M # {} => (r \in M /\ \A j \in M : r <= j)

\* a wildcard route declared before a literal route that matches too
C9_Witness ==
    /\ mResult # Nil
    /\ Len(mTable) > 1
    /\ mTable[1].Path = <<"/", "a", "/", "*">>
    /\ mTable[2].Path = <<"/", "a", "/", "b">>
    /\ mResult[1].matched[1]
    /\ mResult[1].matched[2]
    /\ mResult[1].index = 1

\* Segments of a path: split on "/", leading and trailing empties dropped
RECURSIVE DropLeadingEmpty(_)
DropLeadingEmpty(parts) ==
    IF parts # <<>> /\ Head(parts) = <<>>
    THEN DropLeadingEmpty(Tail(parts))
    ELSE parts

RECURSIVE DropTrailingEmpty(_)
DropTrailingEmpty(parts) ==
    IF parts # <<>> /\ parts[Len(parts)] = <<>>
    THEN DropTrailingEmpty(SubSeq(parts, 1, Len(parts) - 1))
    ELSE parts

Segments(s) == DropTrailingEmpty(DropLeadingEmpty(Split(s)))

IsPlaceholder(seg) ==
    Len(seg) > 1 /\ seg[1] = "{" /\ seg[Len(seg)] = "}"

IsTailWildcard(route) ==
    LET segs == Segments(route.Path)
    IN  segs # <<>> /\ segs[Len(segs)] = <<"*">>

\* C10: a route whose last segment is "*" matches a path iff the path has
\* at least as many segments as the route's prefix and each prefix segment
\* equals the path segment or is a {name} placeholder.
C10_TailWildcardMatch ==
    mResult # Nil =>
        \A i \in 1..Len(mTable) :
            (IsTailWildcard(mTable[i]) /\ mTable[i].Method \in {mMethod, "*"})
            => LET segs == Segments(mTable[i].Path)
                   prefix == SubSeq(segs, 1, Len(segs) - 1)
                   ps == Segments(mPath)
               IN  mResult[1].matched[i]
                     <=> /\ Len(ps) >= Len(prefix)
                         /\ \A k \in 1..Len(prefix) :
                               prefix[k] = ps[k] \/ IsPlaceholder(prefix[k])

\* C11: a route that is not a tail wildcard matches a path iff both have
\* the same number of segments (leading and trailing empties dropped) and
\* every route segment equals the path segment or is a {name} placeholder;
\* so /{id} matches neither /1/2 nor the root path, which has no segments.
C11_PlaceholderOneSegment ==
    mResult # Nil =>
        \A i \in 1..Len(mTable) :
            (~IsTailWildcard(mTable[i]) /\ mTable[i].Method \in {mMethod, "*"})
            => LET segs == Segments(mTable[i].Path)
                   ps == Segments(mPath)
               IN  mResult[1].matched[i]
                     <=> /\ Len(ps) = Len(segs)
                         /\ \A k \in 1..Len(segs) :
                               segs[k] = ps[k] \/ IsPlaceholder(segs[k])

\* C12: with ReloadConfig running concurrently, every configuration lookup
\* made for a request (middleware route lookup, pipeline route lookup,
\* upstream-service lookups) reads one and the same Config; a reload never
\* changes the route or services seen by a request in flight.
C12_OneSnapshotPerRequest ==
    pc # "idle" => \A c1, c2 \in trace.seen : c1 = c2

\* C13: when a route's target_path is its own path pattern, the rewritten
\* outbound path of every inbound path the route matches is the inbound
\* path.
HasPattern(route) ==
    \/ IsTailWildcard(route)
    \/ \E k \in 1..Len(Segments(route.Path)) :
          IsPlaceholder(Segments(route.Path)[k])

C13_IdentityTemplate ==
    (/\ sOut # <<>>
     /\ HasPattern(sIn[1].route)
     /\ sIn[1].route.TargetPath = sIn[1].route.Path)
        => sOut[1] = sIn[1].path

\* C14: in proxy mode the query string of the outbound URL is the inbound
\* raw query string: same parameters, same order, same repeated keys.
C14_QueryUnchanged ==
    sOut # <<>> => sOut[1].RawQuery = sIn[1].query

HopByHop ==
    { "connection", "keep-alive", "proxy-authenticate", "proxy-authorization",
      "te", "trailers", "transfer-encoding", "upgrade" }

\* C15: no outbound request of the proxy strategy carries a hop-by-hop
\* header, whatever letter case the inbound header name used.
C15_NoHopByHop ==
    sOut # <<>> => \A name \in sOut[1].Header : LowerAtom(name) \notin HopByHop

\* an upper-case hop-by-hop header arrives with an end-to-end one, and
\* only the latter is forwarded
C15_Witness ==
    /\ sOut # <<>>
    /\ sIn[1].headers = {"KEEP-ALIVE", "x-trace"}
    /\ sOut[1].Header = {"X-Trace"}


(***************************************************************************)
(* C16: every outbound call made by the strategy a request was dispatched  *)
(* to goes to a service the matched route names, as its upstream or as one *)
(* of its upstreams.                                                       *)
(***************************************************************************)
NamedBy(route) ==
    {route.Upstream} \cup { route.Upstreams[k] : k \in 1..Len(route.Upstreams) }

Size(m) == Cardinality(DOMAIN m)

Collected ==
    /\ sIn # <<>> /\ sOut # <<>>
    /\ sIn[1].strategy \in FanoutStrategies
    /\ ~EarlyError(sIn[1])
    /\ sOut[1].pending = {}

C17_EntriesMatchUpstreams ==
    Collected =>
        Size(sOut[1].results) + Size(sOut[1].errors) = Len(sIn[1].Upstreams)


(***************************************************************************)
(* C18: dashboard_orchestrator is always answered with 200; the upstreams  *)
(* whose call failed are listed under errors, those whose call succeeded   *)
(* under data, and the errors key is there exactly when some call failed.  *)
(***************************************************************************)
\* the services of the collected calls that ended as kind
ServicesEnding(kinds) ==
    { CallsOf(sIn[1])[i].service :
        i \in { j \in DOMAIN sOut[1].finished :
                   sOut[1].finished[j].kind \in kinds } }

DashboardReturned ==
    /\ sIn # <<>> /\ sOut # <<>>
    /\ sIn[1].strategy = "dashboard_orchestrator"
    /\ sOut[1].ret # ""

C18_DashboardPartial ==
    DashboardReturned =>
        /\ sOut[1].ret = "ok"
        /\ ResponseOf(sIn[1], sOut[1]).StatusCode = 200
        /\ ServicesEnding({"error"}) \subseteq DOMAIN sOut[1].errors
        /\ ServicesEnding({"data"}) \subseteq DOMAIN sOut[1].results
        /\ "errors" \in ResultKeys(sIn[1], sOut[1])
              <=> ServicesEnding({"error"}) # {}

\* one upstream failed and another one answered
C18_Witness ==
    /\ DashboardReturned
    /\ ServicesEnding({"error"}) # {}
    /\ ServicesEnding({"data"}) # {}
    /\ ServicesEnding({"error"}) \cap ServicesEnding({"data"}) = {}


(***************************************************************************)
(* C19: plant_full_report fails, and the gateway answers 500, whenever     *)
(* its results map has no plant_management entry once the calls have been  *)
(* collected; a report is returned only when the entry is there.           *)
(***************************************************************************)
PlantReportReturned ==
    /\ sIn # <<>> /\ sOut # <<>>
    /\ sIn[1].strategy = "plant_full_report"
    /\ sIn[1].Upstreams # <<>>
    /\ ~EarlyError(sIn[1])
    /\ sOut[1].ret # ""

C19_PlantInfoRequired ==
    PlantReportReturned =>
        /\ "plant_management" \notin DOMAIN sOut[1].results
              => /\ sOut[1].ret = "err"
                 /\ ResponseOf(sIn[1], sOut[1]).StatusCode = 500
        /\ sOut[1].ret = "ok"
              => "plant_management" \in DOMAIN sOut[1].results


(***************************************************************************)
(* C20: user_profile_orchestrator fails, and the gateway answers 500,      *)
(* exactly when the user-info call did not succeed.  A 404 from the plants *)
(* or the devices call counts as an empty list and leaves no entry in      *)
(* partial_errors; any other failure of these calls is recorded there.     *)
(***************************************************************************)
ProfileReturned ==
    /\ sIn # <<>> /\ sOut # <<>>
    /\ sIn[1].strategy = "user_profile_orchestrator"
    /\ sOut[1].ret # ""

\* how call i of the profile ended: "" when it never ran
ProfileOutcome(i) ==
    IF i \in DOMAIN sOut[1].finished THEN sOut[1].finished[i].outcome ELSE ""

ProfileKey(i) == CallsOf(sIn[1])[i].key

C20_ProfileNeedsUserInfo ==
    ProfileReturned =>
        /\ sOut[1].ret = "err" <=> ProfileOutcome(1) # "ok"
        /\ sOut[1].ret = "err"
              <=> ResponseOf(sIn[1], sOut[1]).StatusCode = 500
        /\ sOut[1].ret = "ok"
              => ResponseOf(sIn[1], sOut[1]).StatusCode = 200
        /\ \A i \in {2, 3} :
              ~EarlyError(sIn[1]) =>
                 /\ ProfileOutcome(i) = "not_found"
                       => /\ ProfileKey(i) \in DOMAIN sOut[1].results
                          /\ sOut[1].results[ProfileKey(i)].kind = "empty"
                          /\ ProfileKey(i) \notin DOMAIN sOut[1].errors
                 /\ ProfileOutcome(i) \notin {"ok", "not_found"}
                       => /\ ProfileKey(i) \in DOMAIN sOut[1].errors
                          /\ "partial_errors" \in ResultKeys(sIn[1], sOut[1])

\* the profile was returned although the plants call met a 404 and the
\* devices call a failing upstream
C20_Witness ==
    /\ ProfileReturned
    /\ sOut[1].ret = "ok"
    /\ ProfileOutcome(2) = "not_found"
    /\ ProfileOutcome(3) = "server_error"


(***************************************************************************)
(* C21: the registry filled at startup resolves each of the six built-in   *)
(* names, so ExecuteStrategy never answers "strategy not found" for a      *)
(* route that names one of them.                                           *)
(***************************************************************************)
BuiltinNames ==
    {"proxy", "dashboard_orchestrator", "plant_full_report",
     "user_profile_orchestrator", "graphql_local", "graphql_proxy"}

\* the name the mode handler passes to ExecuteStrategy
StrategyNameOf(route) ==
    IF route.Mode = "proxy" /\ route.Strategy = "" THEN "proxy"
    ELSE route.Strategy

C21_BuiltinsResolve ==
    /\ (pc = "dispatch" /\ StrategyNameOf(CurrentRoute) \in BuiltinNames)
          => StrategyNameOf(CurrentRoute) \in Registered
    /\ (pc = "done" /\ reqCtx.Route # 0 /\ CurrentRoute.Mode = "logic"
          /\ CurrentRoute.Strategy \in BuiltinNames)
          => ~(trace.executed = <<>>
               /\ response = ErrorResponse(500, "Strategy execution failed"))


(***************************************************************************)
(* C22: every request gets exactly one response, and its status is one of  *)
(* 200, 400, 401, 404, 500 and 502, whatever the mode of the route.        *)
(***************************************************************************)
SpecStatuses == {200, 400, 401, 404, 500, 502}

C22_OneResponseKnownStatus ==
    /\ trace.emitted <= 1
    /\ pc = "done" =>
          /\ trace.emitted = 1
          /\ response.StatusCode \in SpecStatuses

\* C22, amended: every request gets exactly one response; its status is
\* one of 200, 400, 401, 404, 500 and 502, except that in proxy mode a
\* completed upstream call passes the upstream's own status through.
UpstreamStatusPassedThrough ==
    /\ sIn # <<>> /\ sOut # <<>>
    /\ sIn[1].mode = "proxy"
    /\ sIn[1].strategy = "proxy"
    /\ sOut[1].ret = "ok"
    /\ 1 \in DOMAIN sOut[1].finished
    /\ sOut[1].finished[1].outcome \notin {"transport", "truncated"}
    /\ response.StatusCode = UpstreamStatus(sOut[1].finished[1].outcome)

C22_OneResponseStatusOrPassThrough ==
    /\ trace.emitted <= 1
    /\ pc = "done" =>
          /\ trace.emitted = 1
          /\ \/ response.StatusCode \in SpecStatuses
             \/ UpstreamStatusPassedThrough

\* a proxied request has been answered with the upstream's 503
C22_Witness ==
    /\ pc = "done"
    /\ trace.emitted = 1
    /\ UpstreamStatusPassedThrough
    /\ response.StatusCode = 503


(***************************************************************************)
(* C23: a request goes through match, authenticate, dispatch in that       *)
(* order and through each of them at most once: "Route not found" comes    *)
(* before any authentication step, a 401 after matching and before         *)
(* dispatch, and neither route matching nor credential validation nor      *)
(* strategy execution is done a second time for the same request.          *)
(***************************************************************************)
Times(step) ==
    Cardinality({ k \in 1..Len(trace.stages) : trace.stages[k] = step })

StageRank(step) ==
    CASE step = "match" -> 1
      [] step = "authenticate" -> 2
      [] OTHER -> 3

C23_StagesOnceInOrder ==
    /\ \A step \in {"match", "authenticate", "dispatch"} : Times(step) <= 1
    /\ \A k \in 1..(Len(trace.stages) - 1) :
          StageRank(trace.stages[k]) < StageRank(trace.stages[k + 1])
    /\ Len(trace.executed) <= 1
    /\ response.StatusCode = 404 /\ response.error = "Route not found"
          => Times("authenticate") = 0
    /\ response.StatusCode = 401
          => Times("match") >= 1 /\ Times("dispatch") = 0


(***************************************************************************)
(* C24: with a single-upstream strategy (proxy, graphql_proxy), a          *)
(* transport error or timeout of the one upstream call ends the request    *)
(* with status 502.                                                        *)
(***************************************************************************)
SingleCallFailedInTransit ==
    /\ pc = "done"
    /\ sIn # <<>> /\ sOut # <<>>
    /\ sIn[1].strategy \in {"proxy", "graphql_proxy"}
    /\ 1 \in DOMAIN sOut[1].finished
    /\ sOut[1].finished[1].outcome = "transport"

C24_TransportErrorIs502 ==
    SingleCallFailedInTransit => response.StatusCode = 502


(***************************************************************************)
(* C25: on a GraphQL-mode route, a body that is not a well-formed GraphQL  *)
(* request is answered 400 and no upstream call is issued.                 *)
(***************************************************************************)
BadGraphQLBodyAnswered ==
    /\ pc = "done"
    /\ sIn # <<>> /\ sOut # <<>>
    /\ sIn[1].mode = "graphql"
    /\ sIn[1].op \in {"malformed", "undecodable"}

C25_MalformedGraphQLIs400 ==
    BadGraphQLBodyAnswered =>
        /\ response.StatusCode = 400
        /\ sOut[1].calls = {}


(***************************************************************************)
(* C26: when the client disconnects while its request is in flight, every  *)
(* outbound call made for the request is cancelled: the auth validation    *)
(* call and each upstream call of the strategy.  A call that is issued or  *)
(* still running after the disconnection can therefore only end as a       *)
(* cancelled call.                                                         *)
(***************************************************************************)
GoneBeforeValidation == trace.goneAt \in {"middleware", "validating"}

GoneBeforeDispatch ==
    trace.goneAt \in {"middleware", "validating", "handler", "dispatch"}

C26_DisconnectCancelsCalls ==
    /\ (GoneBeforeValidation /\ authResp # Nil)
          => authResp[1].err = "canceled"
    /\ (GoneBeforeDispatch /\ sOut # <<>>)
          => \A i \in DOMAIN sOut[1].finished :
                sOut[1].finished[i].outcome \in {"transport", "unconfigured"}


(***************************************************************************)
(* C27: for a fixed route and fixed outcomes of the calls, the data and    *)
(* errors maps of a fan-out strategy are the same whatever the order in    *)
(* which the calls complete.  Completion in the order of the upstream list *)
(* is one of the possible orders, so every collection must end with the    *)
(* maps that order gives.                                                  *)
(***************************************************************************)
\* the maps after collecting calls 1..n in that order
RECURSIVE CollectedInListOrder(_, _)
CollectedInListOrder(fin, n) ==
    IF n = 0 THEN [results |-> EmptyMap, errors |-> EmptyMap]
    ELSE LET before == CollectedInListOrder(fin, n - 1)
             key == CallsOf(sIn[1])[n].key
         IN  IF fin[n].kind = "error"
             THEN [before EXCEPT !.errors = Put(@, key, Filed("error", n))]
             ELSE [before EXCEPT
                     !.results = Put(@, key, Filed(fin[n].kind, n))]

C27_OrderIndependent ==
    Collected =>
        LET inOrder == CollectedInListOrder(sOut[1].finished,
                                            Len(CallsOf(sIn[1])))
        IN  /\ sOut[1].results = inOrder.results
            /\ sOut[1].errors = inOrder.errors


(***************************************************************************)
(* C28: the API-key allowlist is protected by a reader/writer lock: never  *)
(* is AddAPIKey or RemoveAPIKey inside the map at the same time as another *)
(* AddAPIKey or RemoveAPIKey, or as a ValidateAPIKey of a concurrent       *)
(* request.                                                                *)
(***************************************************************************)
C28_AllowlistWritersExclusive ==
    \A a, b \in allowlist.inMap :
        ~(a # b /\ a.op # "read")


(***************************************************************************)
(* C29: every outbound proxy call has a finite deadline: the timeout       *)
(* configured for the upstream, or 10s when its service entry gives none.  *)
(***************************************************************************)
ConfiguredOrDefault ==
    LET yaml == sIn[1].yaml
    IN  IF sIn[1].Upstream \in yaml.declared /\ yaml.Timeout # 0
        THEN yaml.Timeout
        ELSE 10

C29_ProxyDeadlineFinite ==
    (sIn # <<>> /\ sOut # <<>>) =>
        /\ sOut[1].Timeout # 0
        /\ sOut[1].Timeout = ConfiguredOrDefault


(***************************************************************************)
(* C30: on a GraphQL-mode route using the local schema, a dashboard query  *)
(* issues exactly two child calls, one to analytics and one to             *)
(* plant_management, and is answered with the merged wrapper; a failed     *)
(* child is left out of the wrapper and never makes the response an error. *)
(***************************************************************************)
DashboardQueryAnswered ==
    /\ pc = "done"
    /\ sIn # <<>> /\ sOut # <<>>
    /\ sIn[1].mode = "graphql"
    /\ sIn[1].strategy = "local_schema"
    /\ sIn[1].op = "dashboard"

C30_DashboardQueryTwoCalls ==
    DashboardQueryAnswered =>
        /\ Len(CallsOf(sIn[1])) = 2
        /\ { CallsOf(sIn[1])[i].service : i \in DOMAIN sOut[1].finished }
              = {"analytics", "plant_management"}
        /\ sOut[1].ret = "ok"
        /\ response.StatusCode = 200
        /\ \A i \in DOMAIN sOut[1].finished :
              sOut[1].finished[i].kind = "error"
                 <=> CallsOf(sIn[1])[i].key \notin DOMAIN sOut[1].results


(***************************************************************************)
(* C31: in proxy mode, whenever the upstream call completes, the status of *)
(* the gateway's response is the status the upstream answered with,        *)
(* whatever that status is (3xx, 4xx and 5xx included).                    *)
(***************************************************************************)
\* The status of the upstream service's own answer
RepliedStatus(o) == IF o = "redirected" THEN 302 ELSE UpstreamStatus(o)

ProxyCallCompleted ==
    /\ pc = "done"
    /\ sIn # <<>> /\ sOut # <<>>
    /\ sIn[1].mode = "proxy"
    /\ sIn[1].strategy = "proxy"
    /\ 1 \in DOMAIN sOut[1].finished
    /\ sOut[1].finished[1].replied \notin {"transport", "truncated"}

C31_ProxyRelaysUpstreamStatus ==
    ProxyCallCompleted =>
        response.StatusCode = RepliedStatus(sOut[1].finished[1].replied)


(***************************************************************************)
(* C32: every route a request is dispatched on satisfies the Route         *)
(* invariant (proxy: an upstream; logic: a strategy and at least one       *)
(* upstream entry; graphql: a strategy), and no strategy is executed for   *)
(* a route that violates it.                                               *)
(***************************************************************************)
\* Route.Validate, the part on the three modes
RouteInvariant(r) ==
    /\ r.Mode = "proxy" => r.Upstream # ""
    /\ r.Mode = "logic" => r.Strategy # "" /\ r.Upstreams # <<>>
    /\ r.Mode = "graphql" => r.Strategy # ""

C32_DispatchedRoutesValid ==
    /\ pc = "dispatch" => RouteInvariant(CurrentRoute)
    /\ trace.executed # <<>> => RouteInvariant(CurrentRoute)


(***************************************************************************)
(* GatewayHandler.HandleRequest: what of the inbound body is stored in     *)
(* the RequestContext.  A body is empty, a JSON document or bytes that are *)
(* not JSON; a chunked request carries no Content-Length.                  *)
(***************************************************************************)
HTTPMethods == {"GET", "POST", "PUT", "PATCH", "DELETE"}

ContentTypes ==
    {"", "application/json", "Application/JSON; charset=utf-8",
     "multipart/form-data; boundary=x", "text/plain",
     "application/octet-stream"}

Bodies == {<<>>, <<"json">>, <<"bytes">>}

\* strings.Contains(strings.ToLower(contentType), "application/json")
IsJSONType(ct) ==
    ct \in {"application/json", "Application/JSON; charset=utf-8"}

\* strings.Contains(strings.ToLower(contentType), "multipart/form-data")
IsMultipartType(ct) == ct = "multipart/form-data; boundary=x"

\* c.Request.ContentLength: -1 when the length is not known
ContentLength(r) == IF r.Chunked THEN 0 - 1 ELSE Len(r.Body)

InboundRequests ==
    [Method : HTTPMethods, ContentType : ContentTypes, Body : Bodies,
     Chunked : BOOLEAN]

\* reqCtx.Body and the x-multipart-body header after the body extraction
StoredBody(r) ==
    IF r.Method \notin {"POST", "PUT", "PATCH"}
    THEN [shape |-> "empty", multipart |-> FALSE]
    ELSE IF IsJSONType(r.ContentType)
    THEN [shape |-> IF r.Body = <<"json">> THEN "tree" ELSE "empty",
          multipart |-> FALSE]
    ELSE IF IsMultipartType(r.ContentType)
    THEN [shape |-> "raw", multipart |-> TRUE]
    ELSE [shape |-> IF ContentLength(r) > 0 THEN "raw" ELSE "empty",
          multipart |-> FALSE]

InitBody ==
    /\ PipeIdle
    /\ MatchIdle
    /\ sIn \in { Some(r) : r \in InboundRequests }
    /\ sOut = <<>>

\* HandleRequest up to the call of ProcessRequest
ExtractBody ==
    /\ sIn # <<>>
    /\ sOut = <<>>
    /\ sOut' = Some(StoredBody(sIn[1]))
    /\ UNCHANGED <<pipeVars, matchVars, allowlist, config, sIn>>

SpecBody == InitBody /\ [][ExtractBody]_vars

(***************************************************************************)
(* C33: the stored body shape follows from the Content-Type and the        *)
(* content length alone, whatever the HTTP method: application/json gives  *)
(* the decoded tree (empty if decoding fails), multipart/form-data gives   *)
(* the raw bytes and the header x-multipart-body, any other type with a    *)
(* content length above 0 gives the raw bytes, and a missing or            *)
(* zero-length body gives empty.                                           *)
(***************************************************************************)
\* The shapes the table allows: a multipart request without a body falls
\* under two of its rows, and either is accepted.
ShapesByTypeAndLength(r) ==
    IF IsJSONType(r.ContentType)
    THEN {[shape |-> IF r.Body = <<"json">> THEN "tree" ELSE "empty",
           multipart |-> FALSE]}
    ELSE IF IsMultipartType(r.ContentType)
    THEN {[shape |-> "raw", multipart |-> TRUE]}
            \cup (IF ContentLength(r) > 0 THEN {}
                  ELSE {[shape |-> "empty", multipart |-> FALSE]})
    ELSE {[shape |-> IF ContentLength(r) > 0 THEN "raw" ELSE "empty",
           multipart |-> FALSE]}

C33_BodyShapeForEveryMethod ==
    sOut # <<>> => sOut[1] \in ShapesByTypeAndLength(sIn[1])


(***************************************************************************)
(* A fan-out strategy goroutine by goroutine: each sub-task makes its call *)
(* and sends one serviceResult on resultChan; the parent receives from the *)
(* channel and files what it received in the results or the errors map.    *)
(***************************************************************************)
\* make(chan serviceResult, len(params.RouteConfig.Upstreams)), or 3
ChanCap(params) == Len(CallsOf(params))

\* a parent that returns with the first result it receives
AwaitedFirst(params) == IF CallsOf(params) = <<>> THEN 0 ELSE 1

\* for i := 0; i < len(params.RouteConfig.Upstreams); i++, or i < 3
Awaited(params) == Len(CallsOf(params))

\* Sub-tasks still in their call, sub-tasks holding a result to send, how
\* each call ended, the channel's buffer, the sub-tasks the parent has received from, the two
\* maps, who has written to them, and what Execute returned.
Launched(params) ==
    [calling |-> 1..Len(CallsOf(params)), sending |-> EmptyMap,
     ended |-> EmptyMap, chan |-> <<>>, received |-> <<>>,
     results |-> EmptyMap, errors |-> EmptyMap, wrote |-> {}, ret |-> ""]

MaxSubTasks == 3

GatherUpstreams == {"analytics", "plant_management"}

InitGather ==
    /\ PipeIdle
    /\ MatchIdle
    /\ \E strategy \in {"dashboard_orchestrator", "user_profile_orchestrator"},
          upstreams \in {<<>>} \cup SeqsUpTo(GatherUpstreams, MaxSubTasks) :
          LET params == StrategyParams(strategy, "logic",
                            LogicRoute(strategy, upstreams),
                            LogicServices(upstreams, Services),
                            <<"/", "profile", "/", "7">>, Nil, "")
          IN  /\ sIn = Some(params)
              /\ sOut = Some(Launched(params))

\* data, err := callService(...): the call of one sub-task ends
SubTaskCallEnds(o) ==
    /\ sIn # <<>> /\ sOut # <<>>
    /\ \E i \in sOut[1].calling :
       LET params == sIn[1]
           call == CallsOf(params)[i]
       IN  /\ ~Reaches(params, call) => o = "transport"
           /\ sOut' = Some(
                 [sOut[1] EXCEPT
                    !.calling = @ \ {i},
                    !.sending = Put(@, i, Classify(params, call,
                                                   Followed(o))),
                    !.ended = Put(@, i, Classify(params, call,
                                                 Followed(o)))])
    /\ UNCHANGED <<pipeVars, matchVars, allowlist, config, sIn>>

\* resultChan <- serviceResult{...}: goes through when the buffer has room
SubTaskSends ==
    /\ sIn # <<>> /\ sOut # <<>>
    /\ Len(sOut[1].chan) < ChanCap(sIn[1])
    /\ \E i \in DOMAIN sOut[1].sending :
          sOut' = Some(
             [sOut[1] EXCEPT
                !.sending = [j \in DOMAIN @ \ {i} |-> @[j]],
                !.chan = Append(@, [task |-> i, kind |-> sOut[1].sending[i]])])
    /\ UNCHANGED <<pipeVars, matchVars, allowlist, config, sIn>>

\* result := <-resultChan and the write to errors or results
ParentReceives ==
    /\ sIn # <<>> /\ sOut # <<>>
    /\ sOut[1].ret = ""
    /\ Len(sOut[1].received) < Awaited(sIn[1])
    /\ sOut[1].chan # <<>>
    /\ LET result == Head(sOut[1].chan)
           key == CallsOf(sIn[1])[result.task].key
       IN  sOut' = Some(
              [sOut[1] EXCEPT
                 !.chan = Tail(@),
                 !.received = Append(@, result.task),
                 !.wrote = @ \cup {"parent"},
                 !.results = IF result.kind = "error" THEN @
                             ELSE Put(@, key, Filed(result.kind, result.task)),
                 !.errors = IF result.kind = "error"
                            THEN Put(@, key, Filed(result.kind, result.task))
                            ELSE @])
    /\ UNCHANGED <<pipeVars, matchVars, allowlist, config, sIn>>

\* the collecting loop is over and Execute returns
GatherReturns ==
    /\ sIn # <<>> /\ sOut # <<>>
    /\ sOut[1].ret = ""
    /\ Len(sOut[1].received) = Awaited(sIn[1])
    /\ sOut' = Some([sOut[1] EXCEPT !.ret = Returned(sIn[1], sOut[1])])
    /\ UNCHANGED <<pipeVars, matchVars, allowlist, config, sIn>>

NextGather ==
    \/ \E o \in CallOutcomes : SubTaskCallEnds(o)
    \/ SubTaskSends
    \/ ParentReceives
    \/ GatherReturns

SpecGather == InitGather /\ [][NextGather]_vars

(***************************************************************************)
(* C34: a fan-out over N sub-tasks returns only after the parent has       *)
(* received exactly one result from each of them; the results and errors   *)
(* maps are written by the parent alone, after it has received the result  *)
(* filed, and no sub-task that has finished its call is ever blocked on    *)
(* its send.                                                               *)
(***************************************************************************)
ReceivedFrom(st) == { st.received[k] : k \in 1..Len(st.received) }

C34_ParentGathersAll ==
    LET params == sIn[1]
        st == sOut[1]
        N == Len(CallsOf(params))
    IN  /\ st.ret # "" =>
              /\ Len(st.received) = N
              /\ ReceivedFrom(st) = 1..N
              /\ st.calling = {} /\ DOMAIN st.sending = {}
              /\ st.chan = <<>>
        /\ st.wrote \subseteq {"parent"}
        /\ \A key \in DOMAIN st.results : st.results[key].from \in ReceivedFrom(st)
        /\ \A key \in DOMAIN st.errors : st.errors[key].from \in ReceivedFrom(st)
        /\ DOMAIN st.sending # {} => Len(st.chan) < ChanCap(params)

\* a dashboard over two upstreams has returned with one entry in each map
C34_Witness ==
    /\ sOut[1].ret # ""
    /\ sIn[1].strategy = "dashboard_orchestrator"
    /\ Len(sOut[1].received) = 2
    /\ DOMAIN sOut[1].results # {}
    /\ DOMAIN sOut[1].errors # {}


(***************************************************************************)
(* C35: in a fan-out, the failure or timeout of one sub-call leaves its    *)
(* siblings alone: once the strategy has collected everything, every call  *)
(* that succeeded is in the data map with its own result, and a call that  *)
(* failed has left nothing but an errors entry under its own key.          *)
(***************************************************************************)
GatheredWithAFailure ==
    /\ sOut[1].ret # ""
    /\ \E i \in DOMAIN sOut[1].ended : sOut[1].ended[i] = "error"

C35_SiblingsUnaffected ==
    GatheredWithAFailure =>
        LET st == sOut[1]
            calls == CallsOf(sIn[1])
        IN  \A i \in 1..Len(calls) :
               IF st.ended[i] = "error"
               THEN /\ calls[i].key \in DOMAIN st.errors
                    /\ \A key \in DOMAIN st.results :
                          st.results[key].from # i
               ELSE /\ calls[i].key \in DOMAIN st.results
                    /\ st.results[calls[i].key].from = i


(***************************************************************************)
(* LocalSchemaStrategy.routeGraphQLOperation on its own.  A query is a     *)
(* sequence of pieces of text; a keyword is found in it when its pieces    *)
(* occur next to each other, wherever that is (inside "authors" as well).  *)
(***************************************************************************)
MaxQueryWords == 2

QueryWords ==
    {"analytics", "metrics", "measurements", "plants", "devices", "users",
     "auth", "dashboard", "__schema", "__type", "name", "ors"}

GraphQLQueries == {<<>>} \cup SeqsUpTo(QueryWords, MaxQueryWords)

\* contains(str, substr)
contains(str, substr) ==
    /\ Len(str) >= Len(substr)
    /\ \E i \in 0..(Len(str) - Len(substr)) :
          SubSeq(str, i + 1, i + Len(substr)) = substr

\* LocalSchemaStrategy.containsField
containsField(query, fields) == \E field \in fields : contains(query, <<field>>)

\* a router that looks for the plant keywords before the analytics ones
routeGraphQLOperationPlantsFirst(query) ==
    CASE containsField(query, {"plants", "devices"}) -> "plants"
      [] containsField(query, {"analytics", "metrics", "measurements"}) ->
            "analytics"
      [] containsField(query, {"users", "auth"}) -> "users"
      [] containsField(query, {"dashboard"}) -> "dashboard"
      [] OTHER -> IF contains(query, <<"__schema">>)
                     \/ contains(query, <<"__type">>)
                  THEN "introspection" ELSE "unknown"

\* The branch the switch takes, with handleIntrospectionOrDefault as its
\* default
routeGraphQLOperation(query) ==
    IF containsField(query, {"analytics", "metrics", "measurements"})
    THEN "analytics"
    ELSE IF containsField(query, {"plants", "devices"}) THEN "plants"
    ELSE IF containsField(query, {"users", "auth"}) THEN "users"
    ELSE IF containsField(query, {"dashboard"}) THEN "dashboard"
    ELSE IF contains(query, <<"__schema">>) \/ contains(query, <<"__type">>)
    THEN "introspection"
    ELSE "unknown"

InitLocalSchema ==
    /\ PipeIdle
    /\ MatchIdle
    /\ sIn \in { Some(q) : q \in GraphQLQueries }
    /\ sOut = <<>>

\* LocalSchemaStrategy.Execute from the parsed request to the branch taken
RouteOperation ==
    /\ sIn # <<>>
    /\ sOut = <<>>
    /\ sOut' = Some([taken |-> <<routeGraphQLOperation(sIn[1])>>])
    /\ UNCHANGED <<pipeVars, matchVars, allowlist, config, sIn>>

SpecLocalSchema == InitLocalSchema /\ [][RouteOperation]_vars

(***************************************************************************)
(* C36: the local-schema strategy takes exactly one branch per request:    *)
(* that of the first keyword class found in the query, in the order        *)
(* analytics|metrics|measurements, plants|devices, users|auth, dashboard,  *)
(* __schema|__type, and the "unknown GraphQL operation" error otherwise;   *)
(* a query with keywords of several classes goes to the earliest one.      *)
(***************************************************************************)
KeywordClasses ==
    << [branch |-> "analytics",
        words |-> {"analytics", "metrics", "measurements"}],
       [branch |-> "plants", words |-> {"plants", "devices"}],
       [branch |-> "users", words |-> {"users", "auth"}],
       [branch |-> "dashboard", words |-> {"dashboard"}],
       [branch |-> "introspection", words |-> {"__schema", "__type"}] >>

ClassesFound(query) ==
    { c \in 1..Len(KeywordClasses) :
        \E k \in 1..Len(query) : query[k] \in KeywordClasses[c].words }

EarliestClass(query) ==
    IF ClassesFound(query) = {} THEN "unknown"
    ELSE KeywordClasses[CHOOSE c \in ClassesFound(query) :
                          \A d \in ClassesFound(query) : c <= d].branch

SubstSegs == (PathSegs \ {<<>>}) \cup { <<"*">>, <<"{", "i", "}">> }

SubstPaths(n) == { JoinPath(segs) : segs \in SeqsUpTo(SubstSegs, n) }

\* routes with a placeholder, a wildcard tail or both
SubstRoutePaths ==
    { <<"/", "{", "i", "}", "/", "*">>, <<"/", "a", "/", "{", "i", "}">>,
      <<"/", "{", "i", "}">>, <<"/", "a", "/", "*">>,
      <<"/", "{", "i", "}", "/", "a">> }

\* the routes of path p with a target_path (a template or the path itself)
\* and the request paths
SubstInputs(p) ==
    { [route |-> [Path |-> p, Method |-> "*", TargetPath |-> t], path |-> q] :
        t \in (TargetTemplates \ {<<>>}) \cup {p},
        q \in SubstPaths(MaxPathSegs) }

InitSubst ==
    /\ PipeIdle
    /\ MatchIdle
    /\ sIn \in { Some(x) : x \in
                   { y \in UNION { SubstInputs(p) : p \in SubstRoutePaths } :
                       matchRoute(y.route, y.path, "GET") } }
    /\ sOut = <<>>

SpecSubst == InitSubst /\ [][Rewrite]_vars

(***************************************************************************)
(* C37: the substitution into target_path is simultaneous: each {name} is  *)
(* replaced by the inbound segment bound to it and each * by the wildcard  *)
(* tail, and text put in for one placeholder is not rewritten again, so an *)
(* inbound segment `{other}` or `*` shows up literally in the outbound     *)
(* path.                                                                   *)
(***************************************************************************)
\* One pass over the template: a placeholder of the route is replaced by
\* the segment bound to it, a * by the tail (when there is one), and what
\* was put in is not looked at again.
RECURSIVE SubstituteOnce(_, _, _, _)
SubstituteOnce(t, names, values, tail) ==
    IF t = <<>> THEN <<>>
    ELSE LET hits == { k \in 1..Len(names) :
                         /\ IsParam(names[k])
                         /\ Len(t) >= Len(names[k])
                         /\ SubSeq(t, 1, Len(names[k])) = names[k] }
         IN  IF hits # {}
             THEN LET k == CHOOSE h \in hits : \A g \in hits : h <= g
                  IN  values[k]
                        \o SubstituteOnce(SubSeq(t, Len(names[k]) + 1, Len(t)),
                                          names, values, tail)
             ELSE IF tail # <<>> /\ Head(t) = "*"
             THEN tail[1] \o SubstituteOnce(Tail(t), names, values, tail)
             ELSE <<Head(t)>> \o SubstituteOnce(Tail(t), names, values, tail)

\* the outbound path a simultaneous substitution gives, for the inputs on
\* which replacePathParameters substitutes at all
Simultaneous(route, requestPath) ==
    LET targetPath == IF route.TargetPath = <<>> THEN requestPath
                      ELSE route.TargetPath
        routeParts == Split(Trim(route.Path))
        requestParts == Split(Trim(requestPath))
    IN  IF routeParts[Len(routeParts)] = <<"*">>
        THEN LET routePrefix == SubSeq(routeParts, 1, Len(routeParts) - 1)
             IN  IF Len(requestParts) >= Len(routePrefix)
                 THEN Some(SubstituteOnce(
                         targetPath, routePrefix, requestParts,
                         Some(Join(SubSeq(requestParts, Len(routePrefix) + 1,
                                          Len(requestParts))))))
                 ELSE Nil
        ELSE IF Len(routeParts) # Len(requestParts) THEN Nil
        ELSE Some(SubstituteOnce(targetPath, routeParts, requestParts, Nil))

C37_SubstitutionSimultaneous ==
    (sOut # <<>> /\ Simultaneous(sIn[1].route, sIn[1].path) # Nil)
        => sOut[1] = Simultaneous(sIn[1].route, sIn[1].path)[1]


(***************************************************************************)
(* C38: an X-API-Key header that is not allowlisted, an empty one          *)
(* included, never stands in the way of bearer authentication: on an       *)
(* auth_required route a request carrying such a key and a bearer token    *)
(* that validation accepts is authenticated and dispatched with the        *)
(* Principal of the bearer token.                                          *)
(***************************************************************************)
BearerTokenOf(r) == SubSeq(r.Authorization[1], 3, Len(r.Authorization[1]))

UnlistedKeyWithGoodBearer ==
    /\ pc = "done"
    /\ reqCtx.Route # 0
    /\ CurrentRoute.AuthRequired
    /\ req.XAPIKey # Nil
    /\ req.XAPIKey[1] \notin apiKeys
    /\ req.Authorization # Nil
    /\ HasBearerPrefix(req.Authorization[1])
    /\ ValidateJWT(BearerTokenOf(req)).err = ""
    /\ authResp # Nil => Accepted(authResp[1])

C38_UnlistedKeyKeepsBearer ==
    UnlistedKeyWithGoodBearer =>
        /\ response.StatusCode # 401
        /\ trace.gateErr = ""
        /\ reqCtx.User = ValidateJWT(BearerTokenOf(req)).user
====
